---- MODULE Spec2Model ----
(***************************************************************************)
(* Five remark-lint rules (code-block-style, blockquote-indentation,       *)
(* maximum-heading-length, no-duplicate-headings, checkbox-content-indent) *)
(* as one state machine: a rule function is entered with (tree, file,      *)
(* option), then its visitor callback runs once per matching node in the   *)
(* order in which visit() walks the tree.                                  *)
(*                                                                         *)
(* JavaScript values are tagged records, source text is a sequence of      *)
(* one-character strings.  The lexer of TLA+ cannot hold U+0060 (grave     *)
(* accent) or characters outside the BMP inside a string, so these two     *)
(* characters are written as the tokens "U+0060" and "U+1F4A9".            *)
(***************************************************************************)
EXTENDS Integers, Sequences, FiniteSets, TLC

\* Largest number of top-level blocks of a document.
MaxBlocks == 3

--------------------------------------------------------------------------
\* JavaScript values

Undefined == [t |-> "undefined", s |-> "", n |-> 0]
Null == [t |-> "null", s |-> "", n |-> 0]
Str(s) == [t |-> "string", s |-> s, n |-> 0]
Num(n) == [t |-> "number", s |-> "", n |-> n]
Bool(b) == [t |-> "boolean", s |-> "", n |-> IF b THEN 1 ELSE 0]

\* ToBoolean, as used by `if (preferred)`, `node.lang || ...`, `if (duplicate)`
Truthy(v) ==
  CASE v.t = "string" -> v.s # ""
    [] v.t = "number" -> v.n # 0
    [] v.t = "boolean" -> v.n = 1
    [] OTHER -> FALSE

\* String(v) for the values that are used as a property key or concatenated
JsString(v) ==
  CASE v.t = "string" -> v.s
    [] v.t = "number" -> ToString(v.n)
    [] v.t = "boolean" -> (IF v.n = 1 THEN "true" ELSE "false")
    [] v.t = "null" -> "null"
    [] OTHER -> "undefined"

Backtick == "U+0060"
PileOfPoo == "U+1F4A9"

Abs(n) == IF n < 0 THEN -n ELSE n

--------------------------------------------------------------------------
\* Points, positions and nodes.  A missing line or column is 0 (both are
\* falsy in JavaScript, and null is 0 in arithmetic), a missing offset is -1.

NoOffset == -1
Pt(l, c, o) == [line |-> l, column |-> c, offset |-> o]
NoPoint == Pt(0, 0, NoOffset)
Pos(l1, c1, o1, l2, c2, o2) == [start |-> Pt(l1, c1, o1), end |-> Pt(l2, c2, o2)]
NoPosition == [start |-> NoPoint, end |-> NoPoint]

\* ToNumber of an offset: null is 0
OffsetNumber(o) == IF o = NoOffset THEN 0 ELSE o

Node(type, position, children) ==
  [type |-> type, position |-> position, children |-> children,
   value |-> <<>>, alt |-> <<>>, lang |-> Null, checked |-> Null]

Image(alt, position) ==
  [type |-> "image", position |-> position, children |-> <<>>,
   value |-> <<>>, alt |-> alt, lang |-> Null, checked |-> Null]

Text(chars, position) ==
  [type |-> "text", position |-> position, children |-> <<>>,
   value |-> chars, alt |-> <<>>, lang |-> Null, checked |-> Null]

Code(chars, lang, position) ==
  [type |-> "code", position |-> position, children |-> <<>>,
   value |-> chars, alt |-> <<>>, lang |-> lang, checked |-> Null]

ListItem(checked, position, children) ==
  [type |-> "listItem", position |-> position, children |-> children,
   value |-> <<>>, alt |-> <<>>, lang |-> Null, checked |-> checked]

--------------------------------------------------------------------------
\* Library functions the rules import

\* unist-util-generated
generated(node) ==
  \/ node.position.start.line = 0
  \/ node.position.start.column = 0
  \/ node.position.end.line = 0
  \/ node.position.end.column = 0

\* unist-util-position
pointStart(node) == node.position.start
pointEnd(node) == node.position.end

\* String.prototype.slice
SliceIndex(i, len) ==
  IF i < 0 THEN (IF len + i < 0 THEN 0 ELSE len + i)
  ELSE (IF i > len THEN len ELSE i)

slice(str, from, to) ==
  LET a == SliceIndex(from, Len(str))
      b == SliceIndex(to, Len(str))
  IN IF a >= b THEN <<>> ELSE SubSeq(str, a + 1, b)

\* String.prototype.charAt
charAt(str, i) == IF i >= 0 /\ i < Len(str) THEN str[i + 1] ELSE ""

\* String.prototype.toUpperCase.  A string is a sequence of UTF-16 code units;
\* a unit outside printable ASCII is written as the token of its code, an
\* astral character as its two surrogates.  CaseKeys lists every character
\* whose upper-case mapping (Unicode 17.0.0, with the unconditional special
\* casings such as U+00DF -> "SS") is not itself, CaseValues its mapping.
CaseKeys ==
  <<<<"a">>, <<"b">>, <<"c">>, <<"d">>, <<"e">>, <<"f">>, <<"g">>, <<"h">>,
    <<"i">>, <<"j">>, <<"k">>, <<"l">>, <<"m">>, <<"n">>, <<"o">>, <<"p">>,
    <<"q">>, <<"r">>, <<"s">>, <<"t">>, <<"u">>, <<"v">>, <<"w">>, <<"x">>,
    <<"y">>, <<"z">>, <<"U+00B5">>, <<"U+00DF">>, <<"U+00E0">>, <<"U+00E1">>,
    <<"U+00E2">>, <<"U+00E3">>, <<"U+00E4">>, <<"U+00E5">>, <<"U+00E6">>,
    <<"U+00E7">>, <<"U+00E8">>, <<"U+00E9">>, <<"U+00EA">>, <<"U+00EB">>,
    <<"U+00EC">>, <<"U+00ED">>, <<"U+00EE">>, <<"U+00EF">>, <<"U+00F0">>,
    <<"U+00F1">>, <<"U+00F2">>, <<"U+00F3">>, <<"U+00F4">>, <<"U+00F5">>,
    <<"U+00F6">>, <<"U+00F8">>, <<"U+00F9">>, <<"U+00FA">>, <<"U+00FB">>,
    <<"U+00FC">>, <<"U+00FD">>, <<"U+00FE">>, <<"U+00FF">>, <<"U+0101">>,
    <<"U+0103">>, <<"U+0105">>, <<"U+0107">>, <<"U+0109">>, <<"U+010B">>,
    <<"U+010D">>, <<"U+010F">>, <<"U+0111">>, <<"U+0113">>, <<"U+0115">>,
    <<"U+0117">>, <<"U+0119">>, <<"U+011B">>, <<"U+011D">>, <<"U+011F">>,
    <<"U+0121">>, <<"U+0123">>, <<"U+0125">>, <<"U+0127">>, <<"U+0129">>,
    <<"U+012B">>, <<"U+012D">>, <<"U+012F">>, <<"U+0131">>, <<"U+0133">>,
    <<"U+0135">>, <<"U+0137">>, <<"U+013A">>, <<"U+013C">>, <<"U+013E">>,
    <<"U+0140">>, <<"U+0142">>, <<"U+0144">>, <<"U+0146">>, <<"U+0148">>,
    <<"U+0149">>, <<"U+014B">>, <<"U+014D">>, <<"U+014F">>, <<"U+0151">>,
    <<"U+0153">>, <<"U+0155">>, <<"U+0157">>, <<"U+0159">>, <<"U+015B">>,
    <<"U+015D">>, <<"U+015F">>, <<"U+0161">>, <<"U+0163">>, <<"U+0165">>,
    <<"U+0167">>, <<"U+0169">>, <<"U+016B">>, <<"U+016D">>, <<"U+016F">>,
    <<"U+0171">>, <<"U+0173">>, <<"U+0175">>, <<"U+0177">>, <<"U+017A">>,
    <<"U+017C">>, <<"U+017E">>, <<"U+017F">>, <<"U+0180">>, <<"U+0183">>,
    <<"U+0185">>, <<"U+0188">>, <<"U+018C">>, <<"U+0192">>, <<"U+0195">>,
    <<"U+0199">>, <<"U+019A">>, <<"U+019B">>, <<"U+019E">>, <<"U+01A1">>,
    <<"U+01A3">>, <<"U+01A5">>, <<"U+01A8">>, <<"U+01AD">>, <<"U+01B0">>,
    <<"U+01B4">>, <<"U+01B6">>, <<"U+01B9">>, <<"U+01BD">>, <<"U+01BF">>,
    <<"U+01C5">>, <<"U+01C6">>, <<"U+01C8">>, <<"U+01C9">>, <<"U+01CB">>,
    <<"U+01CC">>, <<"U+01CE">>, <<"U+01D0">>, <<"U+01D2">>, <<"U+01D4">>,
    <<"U+01D6">>, <<"U+01D8">>, <<"U+01DA">>, <<"U+01DC">>, <<"U+01DD">>,
    <<"U+01DF">>, <<"U+01E1">>, <<"U+01E3">>, <<"U+01E5">>, <<"U+01E7">>,
    <<"U+01E9">>, <<"U+01EB">>, <<"U+01ED">>, <<"U+01EF">>, <<"U+01F0">>,
    <<"U+01F2">>, <<"U+01F3">>, <<"U+01F5">>, <<"U+01F9">>, <<"U+01FB">>,
    <<"U+01FD">>, <<"U+01FF">>, <<"U+0201">>, <<"U+0203">>, <<"U+0205">>,
    <<"U+0207">>, <<"U+0209">>, <<"U+020B">>, <<"U+020D">>, <<"U+020F">>,
    <<"U+0211">>, <<"U+0213">>, <<"U+0215">>, <<"U+0217">>, <<"U+0219">>,
    <<"U+021B">>, <<"U+021D">>, <<"U+021F">>, <<"U+0223">>, <<"U+0225">>,
    <<"U+0227">>, <<"U+0229">>, <<"U+022B">>, <<"U+022D">>, <<"U+022F">>,
    <<"U+0231">>, <<"U+0233">>, <<"U+023C">>, <<"U+023F">>, <<"U+0240">>,
    <<"U+0242">>, <<"U+0247">>, <<"U+0249">>, <<"U+024B">>, <<"U+024D">>,
    <<"U+024F">>, <<"U+0250">>, <<"U+0251">>, <<"U+0252">>, <<"U+0253">>,
    <<"U+0254">>, <<"U+0256">>, <<"U+0257">>, <<"U+0259">>, <<"U+025B">>,
    <<"U+025C">>, <<"U+0260">>, <<"U+0261">>, <<"U+0263">>, <<"U+0264">>,
    <<"U+0265">>, <<"U+0266">>, <<"U+0268">>, <<"U+0269">>, <<"U+026A">>,
    <<"U+026B">>, <<"U+026C">>, <<"U+026F">>, <<"U+0271">>, <<"U+0272">>,
    <<"U+0275">>, <<"U+027D">>, <<"U+0280">>, <<"U+0282">>, <<"U+0283">>,
    <<"U+0287">>, <<"U+0288">>, <<"U+0289">>, <<"U+028A">>, <<"U+028B">>,
    <<"U+028C">>, <<"U+0292">>, <<"U+029D">>, <<"U+029E">>, <<"U+0345">>,
    <<"U+0371">>, <<"U+0373">>, <<"U+0377">>, <<"U+037B">>, <<"U+037C">>,
    <<"U+037D">>, <<"U+0390">>, <<"U+03AC">>, <<"U+03AD">>, <<"U+03AE">>,
    <<"U+03AF">>, <<"U+03B0">>, <<"U+03B1">>, <<"U+03B2">>, <<"U+03B3">>,
    <<"U+03B4">>, <<"U+03B5">>, <<"U+03B6">>, <<"U+03B7">>, <<"U+03B8">>,
    <<"U+03B9">>, <<"U+03BA">>, <<"U+03BB">>, <<"U+03BC">>, <<"U+03BD">>,
    <<"U+03BE">>, <<"U+03BF">>, <<"U+03C0">>, <<"U+03C1">>, <<"U+03C2">>,
    <<"U+03C3">>, <<"U+03C4">>, <<"U+03C5">>, <<"U+03C6">>, <<"U+03C7">>,
    <<"U+03C8">>, <<"U+03C9">>, <<"U+03CA">>, <<"U+03CB">>, <<"U+03CC">>,
    <<"U+03CD">>, <<"U+03CE">>, <<"U+03D0">>, <<"U+03D1">>, <<"U+03D5">>,
    <<"U+03D6">>, <<"U+03D7">>, <<"U+03D9">>, <<"U+03DB">>, <<"U+03DD">>,
    <<"U+03DF">>, <<"U+03E1">>, <<"U+03E3">>, <<"U+03E5">>, <<"U+03E7">>,
    <<"U+03E9">>, <<"U+03EB">>, <<"U+03ED">>, <<"U+03EF">>, <<"U+03F0">>,
    <<"U+03F1">>, <<"U+03F2">>, <<"U+03F3">>, <<"U+03F5">>, <<"U+03F8">>,
    <<"U+03FB">>, <<"U+0430">>, <<"U+0431">>, <<"U+0432">>, <<"U+0433">>,
    <<"U+0434">>, <<"U+0435">>, <<"U+0436">>, <<"U+0437">>, <<"U+0438">>,
    <<"U+0439">>, <<"U+043A">>, <<"U+043B">>, <<"U+043C">>, <<"U+043D">>,
    <<"U+043E">>, <<"U+043F">>, <<"U+0440">>, <<"U+0441">>, <<"U+0442">>,
    <<"U+0443">>, <<"U+0444">>, <<"U+0445">>, <<"U+0446">>, <<"U+0447">>,
    <<"U+0448">>, <<"U+0449">>, <<"U+044A">>, <<"U+044B">>, <<"U+044C">>,
    <<"U+044D">>, <<"U+044E">>, <<"U+044F">>, <<"U+0450">>, <<"U+0451">>,
    <<"U+0452">>, <<"U+0453">>, <<"U+0454">>, <<"U+0455">>, <<"U+0456">>,
    <<"U+0457">>, <<"U+0458">>, <<"U+0459">>, <<"U+045A">>, <<"U+045B">>,
    <<"U+045C">>, <<"U+045D">>, <<"U+045E">>, <<"U+045F">>, <<"U+0461">>,
    <<"U+0463">>, <<"U+0465">>, <<"U+0467">>, <<"U+0469">>, <<"U+046B">>,
    <<"U+046D">>, <<"U+046F">>, <<"U+0471">>, <<"U+0473">>, <<"U+0475">>,
    <<"U+0477">>, <<"U+0479">>, <<"U+047B">>, <<"U+047D">>, <<"U+047F">>,
    <<"U+0481">>, <<"U+048B">>, <<"U+048D">>, <<"U+048F">>, <<"U+0491">>,
    <<"U+0493">>, <<"U+0495">>, <<"U+0497">>, <<"U+0499">>, <<"U+049B">>,
    <<"U+049D">>, <<"U+049F">>, <<"U+04A1">>, <<"U+04A3">>, <<"U+04A5">>,
    <<"U+04A7">>, <<"U+04A9">>, <<"U+04AB">>, <<"U+04AD">>, <<"U+04AF">>,
    <<"U+04B1">>, <<"U+04B3">>, <<"U+04B5">>, <<"U+04B7">>, <<"U+04B9">>,
    <<"U+04BB">>, <<"U+04BD">>, <<"U+04BF">>, <<"U+04C2">>, <<"U+04C4">>,
    <<"U+04C6">>, <<"U+04C8">>, <<"U+04CA">>, <<"U+04CC">>, <<"U+04CE">>,
    <<"U+04CF">>, <<"U+04D1">>, <<"U+04D3">>, <<"U+04D5">>, <<"U+04D7">>,
    <<"U+04D9">>, <<"U+04DB">>, <<"U+04DD">>, <<"U+04DF">>, <<"U+04E1">>,
    <<"U+04E3">>, <<"U+04E5">>, <<"U+04E7">>, <<"U+04E9">>, <<"U+04EB">>,
    <<"U+04ED">>, <<"U+04EF">>, <<"U+04F1">>, <<"U+04F3">>, <<"U+04F5">>,
    <<"U+04F7">>, <<"U+04F9">>, <<"U+04FB">>, <<"U+04FD">>, <<"U+04FF">>,
    <<"U+0501">>, <<"U+0503">>, <<"U+0505">>, <<"U+0507">>, <<"U+0509">>,
    <<"U+050B">>, <<"U+050D">>, <<"U+050F">>, <<"U+0511">>, <<"U+0513">>,
    <<"U+0515">>, <<"U+0517">>, <<"U+0519">>, <<"U+051B">>, <<"U+051D">>,
    <<"U+051F">>, <<"U+0521">>, <<"U+0523">>, <<"U+0525">>, <<"U+0527">>,
    <<"U+0529">>, <<"U+052B">>, <<"U+052D">>, <<"U+052F">>, <<"U+0561">>,
    <<"U+0562">>, <<"U+0563">>, <<"U+0564">>, <<"U+0565">>, <<"U+0566">>,
    <<"U+0567">>, <<"U+0568">>, <<"U+0569">>, <<"U+056A">>, <<"U+056B">>,
    <<"U+056C">>, <<"U+056D">>, <<"U+056E">>, <<"U+056F">>, <<"U+0570">>,
    <<"U+0571">>, <<"U+0572">>, <<"U+0573">>, <<"U+0574">>, <<"U+0575">>,
    <<"U+0576">>, <<"U+0577">>, <<"U+0578">>, <<"U+0579">>, <<"U+057A">>,
    <<"U+057B">>, <<"U+057C">>, <<"U+057D">>, <<"U+057E">>, <<"U+057F">>,
    <<"U+0580">>, <<"U+0581">>, <<"U+0582">>, <<"U+0583">>, <<"U+0584">>,
    <<"U+0585">>, <<"U+0586">>, <<"U+0587">>, <<"U+10D0">>, <<"U+10D1">>,
    <<"U+10D2">>, <<"U+10D3">>, <<"U+10D4">>, <<"U+10D5">>, <<"U+10D6">>,
    <<"U+10D7">>, <<"U+10D8">>, <<"U+10D9">>, <<"U+10DA">>, <<"U+10DB">>,
    <<"U+10DC">>, <<"U+10DD">>, <<"U+10DE">>, <<"U+10DF">>, <<"U+10E0">>,
    <<"U+10E1">>, <<"U+10E2">>, <<"U+10E3">>, <<"U+10E4">>, <<"U+10E5">>,
    <<"U+10E6">>, <<"U+10E7">>, <<"U+10E8">>, <<"U+10E9">>, <<"U+10EA">>,
    <<"U+10EB">>, <<"U+10EC">>, <<"U+10ED">>, <<"U+10EE">>, <<"U+10EF">>,
    <<"U+10F0">>, <<"U+10F1">>, <<"U+10F2">>, <<"U+10F3">>, <<"U+10F4">>,
    <<"U+10F5">>, <<"U+10F6">>, <<"U+10F7">>, <<"U+10F8">>, <<"U+10F9">>,
    <<"U+10FA">>, <<"U+10FD">>, <<"U+10FE">>, <<"U+10FF">>, <<"U+13F8">>,
    <<"U+13F9">>, <<"U+13FA">>, <<"U+13FB">>, <<"U+13FC">>, <<"U+13FD">>,
    <<"U+1C80">>, <<"U+1C81">>, <<"U+1C82">>, <<"U+1C83">>, <<"U+1C84">>,
    <<"U+1C85">>, <<"U+1C86">>, <<"U+1C87">>, <<"U+1C88">>, <<"U+1C8A">>,
    <<"U+1D79">>, <<"U+1D7D">>, <<"U+1D8E">>, <<"U+1E01">>, <<"U+1E03">>,
    <<"U+1E05">>, <<"U+1E07">>, <<"U+1E09">>, <<"U+1E0B">>, <<"U+1E0D">>,
    <<"U+1E0F">>, <<"U+1E11">>, <<"U+1E13">>, <<"U+1E15">>, <<"U+1E17">>,
    <<"U+1E19">>, <<"U+1E1B">>, <<"U+1E1D">>, <<"U+1E1F">>, <<"U+1E21">>,
    <<"U+1E23">>, <<"U+1E25">>, <<"U+1E27">>, <<"U+1E29">>, <<"U+1E2B">>,
    <<"U+1E2D">>, <<"U+1E2F">>, <<"U+1E31">>, <<"U+1E33">>, <<"U+1E35">>,
    <<"U+1E37">>, <<"U+1E39">>, <<"U+1E3B">>, <<"U+1E3D">>, <<"U+1E3F">>,
    <<"U+1E41">>, <<"U+1E43">>, <<"U+1E45">>, <<"U+1E47">>, <<"U+1E49">>,
    <<"U+1E4B">>, <<"U+1E4D">>, <<"U+1E4F">>, <<"U+1E51">>, <<"U+1E53">>,
    <<"U+1E55">>, <<"U+1E57">>, <<"U+1E59">>, <<"U+1E5B">>, <<"U+1E5D">>,
    <<"U+1E5F">>, <<"U+1E61">>, <<"U+1E63">>, <<"U+1E65">>, <<"U+1E67">>,
    <<"U+1E69">>, <<"U+1E6B">>, <<"U+1E6D">>, <<"U+1E6F">>, <<"U+1E71">>,
    <<"U+1E73">>, <<"U+1E75">>, <<"U+1E77">>, <<"U+1E79">>, <<"U+1E7B">>,
    <<"U+1E7D">>, <<"U+1E7F">>, <<"U+1E81">>, <<"U+1E83">>, <<"U+1E85">>,
    <<"U+1E87">>, <<"U+1E89">>, <<"U+1E8B">>, <<"U+1E8D">>, <<"U+1E8F">>,
    <<"U+1E91">>, <<"U+1E93">>, <<"U+1E95">>, <<"U+1E96">>, <<"U+1E97">>,
    <<"U+1E98">>, <<"U+1E99">>, <<"U+1E9A">>, <<"U+1E9B">>, <<"U+1EA1">>,
    <<"U+1EA3">>, <<"U+1EA5">>, <<"U+1EA7">>, <<"U+1EA9">>, <<"U+1EAB">>,
    <<"U+1EAD">>, <<"U+1EAF">>, <<"U+1EB1">>, <<"U+1EB3">>, <<"U+1EB5">>,
    <<"U+1EB7">>, <<"U+1EB9">>, <<"U+1EBB">>, <<"U+1EBD">>, <<"U+1EBF">>,
    <<"U+1EC1">>, <<"U+1EC3">>, <<"U+1EC5">>, <<"U+1EC7">>, <<"U+1EC9">>,
    <<"U+1ECB">>, <<"U+1ECD">>, <<"U+1ECF">>, <<"U+1ED1">>, <<"U+1ED3">>,
    <<"U+1ED5">>, <<"U+1ED7">>, <<"U+1ED9">>, <<"U+1EDB">>, <<"U+1EDD">>,
    <<"U+1EDF">>, <<"U+1EE1">>, <<"U+1EE3">>, <<"U+1EE5">>, <<"U+1EE7">>,
    <<"U+1EE9">>, <<"U+1EEB">>, <<"U+1EED">>, <<"U+1EEF">>, <<"U+1EF1">>,
    <<"U+1EF3">>, <<"U+1EF5">>, <<"U+1EF7">>, <<"U+1EF9">>, <<"U+1EFB">>,
    <<"U+1EFD">>, <<"U+1EFF">>, <<"U+1F00">>, <<"U+1F01">>, <<"U+1F02">>,
    <<"U+1F03">>, <<"U+1F04">>, <<"U+1F05">>, <<"U+1F06">>, <<"U+1F07">>,
    <<"U+1F10">>, <<"U+1F11">>, <<"U+1F12">>, <<"U+1F13">>, <<"U+1F14">>,
    <<"U+1F15">>, <<"U+1F20">>, <<"U+1F21">>, <<"U+1F22">>, <<"U+1F23">>,
    <<"U+1F24">>, <<"U+1F25">>, <<"U+1F26">>, <<"U+1F27">>, <<"U+1F30">>,
    <<"U+1F31">>, <<"U+1F32">>, <<"U+1F33">>, <<"U+1F34">>, <<"U+1F35">>,
    <<"U+1F36">>, <<"U+1F37">>, <<"U+1F40">>, <<"U+1F41">>, <<"U+1F42">>,
    <<"U+1F43">>, <<"U+1F44">>, <<"U+1F45">>, <<"U+1F50">>, <<"U+1F51">>,
    <<"U+1F52">>, <<"U+1F53">>, <<"U+1F54">>, <<"U+1F55">>, <<"U+1F56">>,
    <<"U+1F57">>, <<"U+1F60">>, <<"U+1F61">>, <<"U+1F62">>, <<"U+1F63">>,
    <<"U+1F64">>, <<"U+1F65">>, <<"U+1F66">>, <<"U+1F67">>, <<"U+1F70">>,
    <<"U+1F71">>, <<"U+1F72">>, <<"U+1F73">>, <<"U+1F74">>, <<"U+1F75">>,
    <<"U+1F76">>, <<"U+1F77">>, <<"U+1F78">>, <<"U+1F79">>, <<"U+1F7A">>,
    <<"U+1F7B">>, <<"U+1F7C">>, <<"U+1F7D">>, <<"U+1F80">>, <<"U+1F81">>,
    <<"U+1F82">>, <<"U+1F83">>, <<"U+1F84">>, <<"U+1F85">>, <<"U+1F86">>,
    <<"U+1F87">>, <<"U+1F88">>, <<"U+1F89">>, <<"U+1F8A">>, <<"U+1F8B">>,
    <<"U+1F8C">>, <<"U+1F8D">>, <<"U+1F8E">>, <<"U+1F8F">>, <<"U+1F90">>,
    <<"U+1F91">>, <<"U+1F92">>, <<"U+1F93">>, <<"U+1F94">>, <<"U+1F95">>,
    <<"U+1F96">>, <<"U+1F97">>, <<"U+1F98">>, <<"U+1F99">>, <<"U+1F9A">>,
    <<"U+1F9B">>, <<"U+1F9C">>, <<"U+1F9D">>, <<"U+1F9E">>, <<"U+1F9F">>,
    <<"U+1FA0">>, <<"U+1FA1">>, <<"U+1FA2">>, <<"U+1FA3">>, <<"U+1FA4">>,
    <<"U+1FA5">>, <<"U+1FA6">>, <<"U+1FA7">>, <<"U+1FA8">>, <<"U+1FA9">>,
    <<"U+1FAA">>, <<"U+1FAB">>, <<"U+1FAC">>, <<"U+1FAD">>, <<"U+1FAE">>,
    <<"U+1FAF">>, <<"U+1FB0">>, <<"U+1FB1">>, <<"U+1FB2">>, <<"U+1FB3">>,
    <<"U+1FB4">>, <<"U+1FB6">>, <<"U+1FB7">>, <<"U+1FBC">>, <<"U+1FBE">>,
    <<"U+1FC2">>, <<"U+1FC3">>, <<"U+1FC4">>, <<"U+1FC6">>, <<"U+1FC7">>,
    <<"U+1FCC">>, <<"U+1FD0">>, <<"U+1FD1">>, <<"U+1FD2">>, <<"U+1FD3">>,
    <<"U+1FD6">>, <<"U+1FD7">>, <<"U+1FE0">>, <<"U+1FE1">>, <<"U+1FE2">>,
    <<"U+1FE3">>, <<"U+1FE4">>, <<"U+1FE5">>, <<"U+1FE6">>, <<"U+1FE7">>,
    <<"U+1FF2">>, <<"U+1FF3">>, <<"U+1FF4">>, <<"U+1FF6">>, <<"U+1FF7">>,
    <<"U+1FFC">>, <<"U+214E">>, <<"U+2170">>, <<"U+2171">>, <<"U+2172">>,
    <<"U+2173">>, <<"U+2174">>, <<"U+2175">>, <<"U+2176">>, <<"U+2177">>,
    <<"U+2178">>, <<"U+2179">>, <<"U+217A">>, <<"U+217B">>, <<"U+217C">>,
    <<"U+217D">>, <<"U+217E">>, <<"U+217F">>, <<"U+2184">>, <<"U+24D0">>,
    <<"U+24D1">>, <<"U+24D2">>, <<"U+24D3">>, <<"U+24D4">>, <<"U+24D5">>,
    <<"U+24D6">>, <<"U+24D7">>, <<"U+24D8">>, <<"U+24D9">>, <<"U+24DA">>,
    <<"U+24DB">>, <<"U+24DC">>, <<"U+24DD">>, <<"U+24DE">>, <<"U+24DF">>,
    <<"U+24E0">>, <<"U+24E1">>, <<"U+24E2">>, <<"U+24E3">>, <<"U+24E4">>,
    <<"U+24E5">>, <<"U+24E6">>, <<"U+24E7">>, <<"U+24E8">>, <<"U+24E9">>,
    <<"U+2C30">>, <<"U+2C31">>, <<"U+2C32">>, <<"U+2C33">>, <<"U+2C34">>,
    <<"U+2C35">>, <<"U+2C36">>, <<"U+2C37">>, <<"U+2C38">>, <<"U+2C39">>,
    <<"U+2C3A">>, <<"U+2C3B">>, <<"U+2C3C">>, <<"U+2C3D">>, <<"U+2C3E">>,
    <<"U+2C3F">>, <<"U+2C40">>, <<"U+2C41">>, <<"U+2C42">>, <<"U+2C43">>,
    <<"U+2C44">>, <<"U+2C45">>, <<"U+2C46">>, <<"U+2C47">>, <<"U+2C48">>,
    <<"U+2C49">>, <<"U+2C4A">>, <<"U+2C4B">>, <<"U+2C4C">>, <<"U+2C4D">>,
    <<"U+2C4E">>, <<"U+2C4F">>, <<"U+2C50">>, <<"U+2C51">>, <<"U+2C52">>,
    <<"U+2C53">>, <<"U+2C54">>, <<"U+2C55">>, <<"U+2C56">>, <<"U+2C57">>,
    <<"U+2C58">>, <<"U+2C59">>, <<"U+2C5A">>, <<"U+2C5B">>, <<"U+2C5C">>,
    <<"U+2C5D">>, <<"U+2C5E">>, <<"U+2C5F">>, <<"U+2C61">>, <<"U+2C65">>,
    <<"U+2C66">>, <<"U+2C68">>, <<"U+2C6A">>, <<"U+2C6C">>, <<"U+2C73">>,
    <<"U+2C76">>, <<"U+2C81">>, <<"U+2C83">>, <<"U+2C85">>, <<"U+2C87">>,
    <<"U+2C89">>, <<"U+2C8B">>, <<"U+2C8D">>, <<"U+2C8F">>, <<"U+2C91">>,
    <<"U+2C93">>, <<"U+2C95">>, <<"U+2C97">>, <<"U+2C99">>, <<"U+2C9B">>,
    <<"U+2C9D">>, <<"U+2C9F">>, <<"U+2CA1">>, <<"U+2CA3">>, <<"U+2CA5">>,
    <<"U+2CA7">>, <<"U+2CA9">>, <<"U+2CAB">>, <<"U+2CAD">>, <<"U+2CAF">>,
    <<"U+2CB1">>, <<"U+2CB3">>, <<"U+2CB5">>, <<"U+2CB7">>, <<"U+2CB9">>,
    <<"U+2CBB">>, <<"U+2CBD">>, <<"U+2CBF">>, <<"U+2CC1">>, <<"U+2CC3">>,
    <<"U+2CC5">>, <<"U+2CC7">>, <<"U+2CC9">>, <<"U+2CCB">>, <<"U+2CCD">>,
    <<"U+2CCF">>, <<"U+2CD1">>, <<"U+2CD3">>, <<"U+2CD5">>, <<"U+2CD7">>,
    <<"U+2CD9">>, <<"U+2CDB">>, <<"U+2CDD">>, <<"U+2CDF">>, <<"U+2CE1">>,
    <<"U+2CE3">>, <<"U+2CEC">>, <<"U+2CEE">>, <<"U+2CF3">>, <<"U+2D00">>,
    <<"U+2D01">>, <<"U+2D02">>, <<"U+2D03">>, <<"U+2D04">>, <<"U+2D05">>,
    <<"U+2D06">>, <<"U+2D07">>, <<"U+2D08">>, <<"U+2D09">>, <<"U+2D0A">>,
    <<"U+2D0B">>, <<"U+2D0C">>, <<"U+2D0D">>, <<"U+2D0E">>, <<"U+2D0F">>,
    <<"U+2D10">>, <<"U+2D11">>, <<"U+2D12">>, <<"U+2D13">>, <<"U+2D14">>,
    <<"U+2D15">>, <<"U+2D16">>, <<"U+2D17">>, <<"U+2D18">>, <<"U+2D19">>,
    <<"U+2D1A">>, <<"U+2D1B">>, <<"U+2D1C">>, <<"U+2D1D">>, <<"U+2D1E">>,
    <<"U+2D1F">>, <<"U+2D20">>, <<"U+2D21">>, <<"U+2D22">>, <<"U+2D23">>,
    <<"U+2D24">>, <<"U+2D25">>, <<"U+2D27">>, <<"U+2D2D">>, <<"U+A641">>,
    <<"U+A643">>, <<"U+A645">>, <<"U+A647">>, <<"U+A649">>, <<"U+A64B">>,
    <<"U+A64D">>, <<"U+A64F">>, <<"U+A651">>, <<"U+A653">>, <<"U+A655">>,
    <<"U+A657">>, <<"U+A659">>, <<"U+A65B">>, <<"U+A65D">>, <<"U+A65F">>,
    <<"U+A661">>, <<"U+A663">>, <<"U+A665">>, <<"U+A667">>, <<"U+A669">>,
    <<"U+A66B">>, <<"U+A66D">>, <<"U+A681">>, <<"U+A683">>, <<"U+A685">>,
    <<"U+A687">>, <<"U+A689">>, <<"U+A68B">>, <<"U+A68D">>, <<"U+A68F">>,
    <<"U+A691">>, <<"U+A693">>, <<"U+A695">>, <<"U+A697">>, <<"U+A699">>,
    <<"U+A69B">>, <<"U+A723">>, <<"U+A725">>, <<"U+A727">>, <<"U+A729">>,
    <<"U+A72B">>, <<"U+A72D">>, <<"U+A72F">>, <<"U+A733">>, <<"U+A735">>,
    <<"U+A737">>, <<"U+A739">>, <<"U+A73B">>, <<"U+A73D">>, <<"U+A73F">>,
    <<"U+A741">>, <<"U+A743">>, <<"U+A745">>, <<"U+A747">>, <<"U+A749">>,
    <<"U+A74B">>, <<"U+A74D">>, <<"U+A74F">>, <<"U+A751">>, <<"U+A753">>,
    <<"U+A755">>, <<"U+A757">>, <<"U+A759">>, <<"U+A75B">>, <<"U+A75D">>,
    <<"U+A75F">>, <<"U+A761">>, <<"U+A763">>, <<"U+A765">>, <<"U+A767">>,
    <<"U+A769">>, <<"U+A76B">>, <<"U+A76D">>, <<"U+A76F">>, <<"U+A77A">>,
    <<"U+A77C">>, <<"U+A77F">>, <<"U+A781">>, <<"U+A783">>, <<"U+A785">>,
    <<"U+A787">>, <<"U+A78C">>, <<"U+A791">>, <<"U+A793">>, <<"U+A794">>,
    <<"U+A797">>, <<"U+A799">>, <<"U+A79B">>, <<"U+A79D">>, <<"U+A79F">>,
    <<"U+A7A1">>, <<"U+A7A3">>, <<"U+A7A5">>, <<"U+A7A7">>, <<"U+A7A9">>,
    <<"U+A7B5">>, <<"U+A7B7">>, <<"U+A7B9">>, <<"U+A7BB">>, <<"U+A7BD">>,
    <<"U+A7BF">>, <<"U+A7C1">>, <<"U+A7C3">>, <<"U+A7C8">>, <<"U+A7CA">>,
    <<"U+A7CD">>, <<"U+A7CF">>, <<"U+A7D1">>, <<"U+A7D3">>, <<"U+A7D5">>,
    <<"U+A7D7">>, <<"U+A7D9">>, <<"U+A7DB">>, <<"U+A7F6">>, <<"U+AB53">>,
    <<"U+AB70">>, <<"U+AB71">>, <<"U+AB72">>, <<"U+AB73">>, <<"U+AB74">>,
    <<"U+AB75">>, <<"U+AB76">>, <<"U+AB77">>, <<"U+AB78">>, <<"U+AB79">>,
    <<"U+AB7A">>, <<"U+AB7B">>, <<"U+AB7C">>, <<"U+AB7D">>, <<"U+AB7E">>,
    <<"U+AB7F">>, <<"U+AB80">>, <<"U+AB81">>, <<"U+AB82">>, <<"U+AB83">>,
    <<"U+AB84">>, <<"U+AB85">>, <<"U+AB86">>, <<"U+AB87">>, <<"U+AB88">>,
    <<"U+AB89">>, <<"U+AB8A">>, <<"U+AB8B">>, <<"U+AB8C">>, <<"U+AB8D">>,
    <<"U+AB8E">>, <<"U+AB8F">>, <<"U+AB90">>, <<"U+AB91">>, <<"U+AB92">>,
    <<"U+AB93">>, <<"U+AB94">>, <<"U+AB95">>, <<"U+AB96">>, <<"U+AB97">>,
    <<"U+AB98">>, <<"U+AB99">>, <<"U+AB9A">>, <<"U+AB9B">>, <<"U+AB9C">>,
    <<"U+AB9D">>, <<"U+AB9E">>, <<"U+AB9F">>, <<"U+ABA0">>, <<"U+ABA1">>,
    <<"U+ABA2">>, <<"U+ABA3">>, <<"U+ABA4">>, <<"U+ABA5">>, <<"U+ABA6">>,
    <<"U+ABA7">>, <<"U+ABA8">>, <<"U+ABA9">>, <<"U+ABAA">>, <<"U+ABAB">>,
    <<"U+ABAC">>, <<"U+ABAD">>, <<"U+ABAE">>, <<"U+ABAF">>, <<"U+ABB0">>,
    <<"U+ABB1">>, <<"U+ABB2">>, <<"U+ABB3">>, <<"U+ABB4">>, <<"U+ABB5">>,
    <<"U+ABB6">>, <<"U+ABB7">>, <<"U+ABB8">>, <<"U+ABB9">>, <<"U+ABBA">>,
    <<"U+ABBB">>, <<"U+ABBC">>, <<"U+ABBD">>, <<"U+ABBE">>, <<"U+ABBF">>,
    <<"U+FB00">>, <<"U+FB01">>, <<"U+FB02">>, <<"U+FB03">>, <<"U+FB04">>,
    <<"U+FB05">>, <<"U+FB06">>, <<"U+FB13">>, <<"U+FB14">>, <<"U+FB15">>,
    <<"U+FB16">>, <<"U+FB17">>, <<"U+FF41">>, <<"U+FF42">>, <<"U+FF43">>,
    <<"U+FF44">>, <<"U+FF45">>, <<"U+FF46">>, <<"U+FF47">>, <<"U+FF48">>,
    <<"U+FF49">>, <<"U+FF4A">>, <<"U+FF4B">>, <<"U+FF4C">>, <<"U+FF4D">>,
    <<"U+FF4E">>, <<"U+FF4F">>, <<"U+FF50">>, <<"U+FF51">>, <<"U+FF52">>,
    <<"U+FF53">>, <<"U+FF54">>, <<"U+FF55">>, <<"U+FF56">>, <<"U+FF57">>,
    <<"U+FF58">>, <<"U+FF59">>, <<"U+FF5A">>, <<"U+D801", "U+DC28">>,
    <<"U+D801", "U+DC29">>, <<"U+D801", "U+DC2A">>, <<"U+D801", "U+DC2B">>,
    <<"U+D801", "U+DC2C">>, <<"U+D801", "U+DC2D">>, <<"U+D801", "U+DC2E">>,
    <<"U+D801", "U+DC2F">>, <<"U+D801", "U+DC30">>, <<"U+D801", "U+DC31">>,
    <<"U+D801", "U+DC32">>, <<"U+D801", "U+DC33">>, <<"U+D801", "U+DC34">>,
    <<"U+D801", "U+DC35">>, <<"U+D801", "U+DC36">>, <<"U+D801", "U+DC37">>,
    <<"U+D801", "U+DC38">>, <<"U+D801", "U+DC39">>, <<"U+D801", "U+DC3A">>,
    <<"U+D801", "U+DC3B">>, <<"U+D801", "U+DC3C">>, <<"U+D801", "U+DC3D">>,
    <<"U+D801", "U+DC3E">>, <<"U+D801", "U+DC3F">>, <<"U+D801", "U+DC40">>,
    <<"U+D801", "U+DC41">>, <<"U+D801", "U+DC42">>, <<"U+D801", "U+DC43">>,
    <<"U+D801", "U+DC44">>, <<"U+D801", "U+DC45">>, <<"U+D801", "U+DC46">>,
    <<"U+D801", "U+DC47">>, <<"U+D801", "U+DC48">>, <<"U+D801", "U+DC49">>,
    <<"U+D801", "U+DC4A">>, <<"U+D801", "U+DC4B">>, <<"U+D801", "U+DC4C">>,
    <<"U+D801", "U+DC4D">>, <<"U+D801", "U+DC4E">>, <<"U+D801", "U+DC4F">>,
    <<"U+D801", "U+DCD8">>, <<"U+D801", "U+DCD9">>, <<"U+D801", "U+DCDA">>,
    <<"U+D801", "U+DCDB">>, <<"U+D801", "U+DCDC">>, <<"U+D801", "U+DCDD">>,
    <<"U+D801", "U+DCDE">>, <<"U+D801", "U+DCDF">>, <<"U+D801", "U+DCE0">>,
    <<"U+D801", "U+DCE1">>, <<"U+D801", "U+DCE2">>, <<"U+D801", "U+DCE3">>,
    <<"U+D801", "U+DCE4">>, <<"U+D801", "U+DCE5">>, <<"U+D801", "U+DCE6">>,
    <<"U+D801", "U+DCE7">>, <<"U+D801", "U+DCE8">>, <<"U+D801", "U+DCE9">>,
    <<"U+D801", "U+DCEA">>, <<"U+D801", "U+DCEB">>, <<"U+D801", "U+DCEC">>,
    <<"U+D801", "U+DCED">>, <<"U+D801", "U+DCEE">>, <<"U+D801", "U+DCEF">>,
    <<"U+D801", "U+DCF0">>, <<"U+D801", "U+DCF1">>, <<"U+D801", "U+DCF2">>,
    <<"U+D801", "U+DCF3">>, <<"U+D801", "U+DCF4">>, <<"U+D801", "U+DCF5">>,
    <<"U+D801", "U+DCF6">>, <<"U+D801", "U+DCF7">>, <<"U+D801", "U+DCF8">>,
    <<"U+D801", "U+DCF9">>, <<"U+D801", "U+DCFA">>, <<"U+D801", "U+DCFB">>,
    <<"U+D801", "U+DD97">>, <<"U+D801", "U+DD98">>, <<"U+D801", "U+DD99">>,
    <<"U+D801", "U+DD9A">>, <<"U+D801", "U+DD9B">>, <<"U+D801", "U+DD9C">>,
    <<"U+D801", "U+DD9D">>, <<"U+D801", "U+DD9E">>, <<"U+D801", "U+DD9F">>,
    <<"U+D801", "U+DDA0">>, <<"U+D801", "U+DDA1">>, <<"U+D801", "U+DDA3">>,
    <<"U+D801", "U+DDA4">>, <<"U+D801", "U+DDA5">>, <<"U+D801", "U+DDA6">>,
    <<"U+D801", "U+DDA7">>, <<"U+D801", "U+DDA8">>, <<"U+D801", "U+DDA9">>,
    <<"U+D801", "U+DDAA">>, <<"U+D801", "U+DDAB">>, <<"U+D801", "U+DDAC">>,
    <<"U+D801", "U+DDAD">>, <<"U+D801", "U+DDAE">>, <<"U+D801", "U+DDAF">>,
    <<"U+D801", "U+DDB0">>, <<"U+D801", "U+DDB1">>, <<"U+D801", "U+DDB3">>,
    <<"U+D801", "U+DDB4">>, <<"U+D801", "U+DDB5">>, <<"U+D801", "U+DDB6">>,
    <<"U+D801", "U+DDB7">>, <<"U+D801", "U+DDB8">>, <<"U+D801", "U+DDB9">>,
    <<"U+D801", "U+DDBB">>, <<"U+D801", "U+DDBC">>, <<"U+D803", "U+DCC0">>,
    <<"U+D803", "U+DCC1">>, <<"U+D803", "U+DCC2">>, <<"U+D803", "U+DCC3">>,
    <<"U+D803", "U+DCC4">>, <<"U+D803", "U+DCC5">>, <<"U+D803", "U+DCC6">>,
    <<"U+D803", "U+DCC7">>, <<"U+D803", "U+DCC8">>, <<"U+D803", "U+DCC9">>,
    <<"U+D803", "U+DCCA">>, <<"U+D803", "U+DCCB">>, <<"U+D803", "U+DCCC">>,
    <<"U+D803", "U+DCCD">>, <<"U+D803", "U+DCCE">>, <<"U+D803", "U+DCCF">>,
    <<"U+D803", "U+DCD0">>, <<"U+D803", "U+DCD1">>, <<"U+D803", "U+DCD2">>,
    <<"U+D803", "U+DCD3">>, <<"U+D803", "U+DCD4">>, <<"U+D803", "U+DCD5">>,
    <<"U+D803", "U+DCD6">>, <<"U+D803", "U+DCD7">>, <<"U+D803", "U+DCD8">>,
    <<"U+D803", "U+DCD9">>, <<"U+D803", "U+DCDA">>, <<"U+D803", "U+DCDB">>,
    <<"U+D803", "U+DCDC">>, <<"U+D803", "U+DCDD">>, <<"U+D803", "U+DCDE">>,
    <<"U+D803", "U+DCDF">>, <<"U+D803", "U+DCE0">>, <<"U+D803", "U+DCE1">>,
    <<"U+D803", "U+DCE2">>, <<"U+D803", "U+DCE3">>, <<"U+D803", "U+DCE4">>,
    <<"U+D803", "U+DCE5">>, <<"U+D803", "U+DCE6">>, <<"U+D803", "U+DCE7">>,
    <<"U+D803", "U+DCE8">>, <<"U+D803", "U+DCE9">>, <<"U+D803", "U+DCEA">>,
    <<"U+D803", "U+DCEB">>, <<"U+D803", "U+DCEC">>, <<"U+D803", "U+DCED">>,
    <<"U+D803", "U+DCEE">>, <<"U+D803", "U+DCEF">>, <<"U+D803", "U+DCF0">>,
    <<"U+D803", "U+DCF1">>, <<"U+D803", "U+DCF2">>, <<"U+D803", "U+DD70">>,
    <<"U+D803", "U+DD71">>, <<"U+D803", "U+DD72">>, <<"U+D803", "U+DD73">>,
    <<"U+D803", "U+DD74">>, <<"U+D803", "U+DD75">>, <<"U+D803", "U+DD76">>,
    <<"U+D803", "U+DD77">>, <<"U+D803", "U+DD78">>, <<"U+D803", "U+DD79">>,
    <<"U+D803", "U+DD7A">>, <<"U+D803", "U+DD7B">>, <<"U+D803", "U+DD7C">>,
    <<"U+D803", "U+DD7D">>, <<"U+D803", "U+DD7E">>, <<"U+D803", "U+DD7F">>,
    <<"U+D803", "U+DD80">>, <<"U+D803", "U+DD81">>, <<"U+D803", "U+DD82">>,
    <<"U+D803", "U+DD83">>, <<"U+D803", "U+DD84">>, <<"U+D803", "U+DD85">>,
    <<"U+D806", "U+DCC0">>, <<"U+D806", "U+DCC1">>, <<"U+D806", "U+DCC2">>,
    <<"U+D806", "U+DCC3">>, <<"U+D806", "U+DCC4">>, <<"U+D806", "U+DCC5">>,
    <<"U+D806", "U+DCC6">>, <<"U+D806", "U+DCC7">>, <<"U+D806", "U+DCC8">>,
    <<"U+D806", "U+DCC9">>, <<"U+D806", "U+DCCA">>, <<"U+D806", "U+DCCB">>,
    <<"U+D806", "U+DCCC">>, <<"U+D806", "U+DCCD">>, <<"U+D806", "U+DCCE">>,
    <<"U+D806", "U+DCCF">>, <<"U+D806", "U+DCD0">>, <<"U+D806", "U+DCD1">>,
    <<"U+D806", "U+DCD2">>, <<"U+D806", "U+DCD3">>, <<"U+D806", "U+DCD4">>,
    <<"U+D806", "U+DCD5">>, <<"U+D806", "U+DCD6">>, <<"U+D806", "U+DCD7">>,
    <<"U+D806", "U+DCD8">>, <<"U+D806", "U+DCD9">>, <<"U+D806", "U+DCDA">>,
    <<"U+D806", "U+DCDB">>, <<"U+D806", "U+DCDC">>, <<"U+D806", "U+DCDD">>,
    <<"U+D806", "U+DCDE">>, <<"U+D806", "U+DCDF">>, <<"U+D81B", "U+DE60">>,
    <<"U+D81B", "U+DE61">>, <<"U+D81B", "U+DE62">>, <<"U+D81B", "U+DE63">>,
    <<"U+D81B", "U+DE64">>, <<"U+D81B", "U+DE65">>, <<"U+D81B", "U+DE66">>,
    <<"U+D81B", "U+DE67">>, <<"U+D81B", "U+DE68">>, <<"U+D81B", "U+DE69">>,
    <<"U+D81B", "U+DE6A">>, <<"U+D81B", "U+DE6B">>, <<"U+D81B", "U+DE6C">>,
    <<"U+D81B", "U+DE6D">>, <<"U+D81B", "U+DE6E">>, <<"U+D81B", "U+DE6F">>,
    <<"U+D81B", "U+DE70">>, <<"U+D81B", "U+DE71">>, <<"U+D81B", "U+DE72">>,
    <<"U+D81B", "U+DE73">>, <<"U+D81B", "U+DE74">>, <<"U+D81B", "U+DE75">>,
    <<"U+D81B", "U+DE76">>, <<"U+D81B", "U+DE77">>, <<"U+D81B", "U+DE78">>,
    <<"U+D81B", "U+DE79">>, <<"U+D81B", "U+DE7A">>, <<"U+D81B", "U+DE7B">>,
    <<"U+D81B", "U+DE7C">>, <<"U+D81B", "U+DE7D">>, <<"U+D81B", "U+DE7E">>,
    <<"U+D81B", "U+DE7F">>, <<"U+D81B", "U+DEBB">>, <<"U+D81B", "U+DEBC">>,
    <<"U+D81B", "U+DEBD">>, <<"U+D81B", "U+DEBE">>, <<"U+D81B", "U+DEBF">>,
    <<"U+D81B", "U+DEC0">>, <<"U+D81B", "U+DEC1">>, <<"U+D81B", "U+DEC2">>,
    <<"U+D81B", "U+DEC3">>, <<"U+D81B", "U+DEC4">>, <<"U+D81B", "U+DEC5">>,
    <<"U+D81B", "U+DEC6">>, <<"U+D81B", "U+DEC7">>, <<"U+D81B", "U+DEC8">>,
    <<"U+D81B", "U+DEC9">>, <<"U+D81B", "U+DECA">>, <<"U+D81B", "U+DECB">>,
    <<"U+D81B", "U+DECC">>, <<"U+D81B", "U+DECD">>, <<"U+D81B", "U+DECE">>,
    <<"U+D81B", "U+DECF">>, <<"U+D81B", "U+DED0">>, <<"U+D81B", "U+DED1">>,
    <<"U+D81B", "U+DED2">>, <<"U+D81B", "U+DED3">>, <<"U+D83A", "U+DD22">>,
    <<"U+D83A", "U+DD23">>, <<"U+D83A", "U+DD24">>, <<"U+D83A", "U+DD25">>,
    <<"U+D83A", "U+DD26">>, <<"U+D83A", "U+DD27">>, <<"U+D83A", "U+DD28">>,
    <<"U+D83A", "U+DD29">>, <<"U+D83A", "U+DD2A">>, <<"U+D83A", "U+DD2B">>,
    <<"U+D83A", "U+DD2C">>, <<"U+D83A", "U+DD2D">>, <<"U+D83A", "U+DD2E">>,
    <<"U+D83A", "U+DD2F">>, <<"U+D83A", "U+DD30">>, <<"U+D83A", "U+DD31">>,
    <<"U+D83A", "U+DD32">>, <<"U+D83A", "U+DD33">>, <<"U+D83A", "U+DD34">>,
    <<"U+D83A", "U+DD35">>, <<"U+D83A", "U+DD36">>, <<"U+D83A", "U+DD37">>,
    <<"U+D83A", "U+DD38">>, <<"U+D83A", "U+DD39">>, <<"U+D83A", "U+DD3A">>,
    <<"U+D83A", "U+DD3B">>, <<"U+D83A", "U+DD3C">>, <<"U+D83A", "U+DD3D">>,
    <<"U+D83A", "U+DD3E">>, <<"U+D83A", "U+DD3F">>, <<"U+D83A", "U+DD40">>,
    <<"U+D83A", "U+DD41">>, <<"U+D83A", "U+DD42">>, <<"U+D83A", "U+DD43">>>>

CaseValues ==
  <<<<"A">>, <<"B">>, <<"C">>, <<"D">>, <<"E">>, <<"F">>, <<"G">>, <<"H">>,
    <<"I">>, <<"J">>, <<"K">>, <<"L">>, <<"M">>, <<"N">>, <<"O">>, <<"P">>,
    <<"Q">>, <<"R">>, <<"S">>, <<"T">>, <<"U">>, <<"V">>, <<"W">>, <<"X">>,
    <<"Y">>, <<"Z">>, <<"U+039C">>, <<"S", "S">>, <<"U+00C0">>, <<"U+00C1">>,
    <<"U+00C2">>, <<"U+00C3">>, <<"U+00C4">>, <<"U+00C5">>, <<"U+00C6">>,
    <<"U+00C7">>, <<"U+00C8">>, <<"U+00C9">>, <<"U+00CA">>, <<"U+00CB">>,
    <<"U+00CC">>, <<"U+00CD">>, <<"U+00CE">>, <<"U+00CF">>, <<"U+00D0">>,
    <<"U+00D1">>, <<"U+00D2">>, <<"U+00D3">>, <<"U+00D4">>, <<"U+00D5">>,
    <<"U+00D6">>, <<"U+00D8">>, <<"U+00D9">>, <<"U+00DA">>, <<"U+00DB">>,
    <<"U+00DC">>, <<"U+00DD">>, <<"U+00DE">>, <<"U+0178">>, <<"U+0100">>,
    <<"U+0102">>, <<"U+0104">>, <<"U+0106">>, <<"U+0108">>, <<"U+010A">>,
    <<"U+010C">>, <<"U+010E">>, <<"U+0110">>, <<"U+0112">>, <<"U+0114">>,
    <<"U+0116">>, <<"U+0118">>, <<"U+011A">>, <<"U+011C">>, <<"U+011E">>,
    <<"U+0120">>, <<"U+0122">>, <<"U+0124">>, <<"U+0126">>, <<"U+0128">>,
    <<"U+012A">>, <<"U+012C">>, <<"U+012E">>, <<"I">>, <<"U+0132">>,
    <<"U+0134">>, <<"U+0136">>, <<"U+0139">>, <<"U+013B">>, <<"U+013D">>,
    <<"U+013F">>, <<"U+0141">>, <<"U+0143">>, <<"U+0145">>, <<"U+0147">>,
    <<"U+02BC", "N">>, <<"U+014A">>, <<"U+014C">>, <<"U+014E">>, <<"U+0150">>,
    <<"U+0152">>, <<"U+0154">>, <<"U+0156">>, <<"U+0158">>, <<"U+015A">>,
    <<"U+015C">>, <<"U+015E">>, <<"U+0160">>, <<"U+0162">>, <<"U+0164">>,
    <<"U+0166">>, <<"U+0168">>, <<"U+016A">>, <<"U+016C">>, <<"U+016E">>,
    <<"U+0170">>, <<"U+0172">>, <<"U+0174">>, <<"U+0176">>, <<"U+0179">>,
    <<"U+017B">>, <<"U+017D">>, <<"S">>, <<"U+0243">>, <<"U+0182">>,
    <<"U+0184">>, <<"U+0187">>, <<"U+018B">>, <<"U+0191">>, <<"U+01F6">>,
    <<"U+0198">>, <<"U+023D">>, <<"U+A7DC">>, <<"U+0220">>, <<"U+01A0">>,
    <<"U+01A2">>, <<"U+01A4">>, <<"U+01A7">>, <<"U+01AC">>, <<"U+01AF">>,
    <<"U+01B3">>, <<"U+01B5">>, <<"U+01B8">>, <<"U+01BC">>, <<"U+01F7">>,
    <<"U+01C4">>, <<"U+01C4">>, <<"U+01C7">>, <<"U+01C7">>, <<"U+01CA">>,
    <<"U+01CA">>, <<"U+01CD">>, <<"U+01CF">>, <<"U+01D1">>, <<"U+01D3">>,
    <<"U+01D5">>, <<"U+01D7">>, <<"U+01D9">>, <<"U+01DB">>, <<"U+018E">>,
    <<"U+01DE">>, <<"U+01E0">>, <<"U+01E2">>, <<"U+01E4">>, <<"U+01E6">>,
    <<"U+01E8">>, <<"U+01EA">>, <<"U+01EC">>, <<"U+01EE">>, <<"J", "U+030C">>,
    <<"U+01F1">>, <<"U+01F1">>, <<"U+01F4">>, <<"U+01F8">>, <<"U+01FA">>,
    <<"U+01FC">>, <<"U+01FE">>, <<"U+0200">>, <<"U+0202">>, <<"U+0204">>,
    <<"U+0206">>, <<"U+0208">>, <<"U+020A">>, <<"U+020C">>, <<"U+020E">>,
    <<"U+0210">>, <<"U+0212">>, <<"U+0214">>, <<"U+0216">>, <<"U+0218">>,
    <<"U+021A">>, <<"U+021C">>, <<"U+021E">>, <<"U+0222">>, <<"U+0224">>,
    <<"U+0226">>, <<"U+0228">>, <<"U+022A">>, <<"U+022C">>, <<"U+022E">>,
    <<"U+0230">>, <<"U+0232">>, <<"U+023B">>, <<"U+2C7E">>, <<"U+2C7F">>,
    <<"U+0241">>, <<"U+0246">>, <<"U+0248">>, <<"U+024A">>, <<"U+024C">>,
    <<"U+024E">>, <<"U+2C6F">>, <<"U+2C6D">>, <<"U+2C70">>, <<"U+0181">>,
    <<"U+0186">>, <<"U+0189">>, <<"U+018A">>, <<"U+018F">>, <<"U+0190">>,
    <<"U+A7AB">>, <<"U+0193">>, <<"U+A7AC">>, <<"U+0194">>, <<"U+A7CB">>,
    <<"U+A78D">>, <<"U+A7AA">>, <<"U+0197">>, <<"U+0196">>, <<"U+A7AE">>,
    <<"U+2C62">>, <<"U+A7AD">>, <<"U+019C">>, <<"U+2C6E">>, <<"U+019D">>,
    <<"U+019F">>, <<"U+2C64">>, <<"U+01A6">>, <<"U+A7C5">>, <<"U+01A9">>,
    <<"U+A7B1">>, <<"U+01AE">>, <<"U+0244">>, <<"U+01B1">>, <<"U+01B2">>,
    <<"U+0245">>, <<"U+01B7">>, <<"U+A7B2">>, <<"U+A7B0">>, <<"U+0399">>,
    <<"U+0370">>, <<"U+0372">>, <<"U+0376">>, <<"U+03FD">>, <<"U+03FE">>,
    <<"U+03FF">>, <<"U+0399", "U+0308", "U+0301">>, <<"U+0386">>,
    <<"U+0388">>, <<"U+0389">>, <<"U+038A">>, <<"U+03A5", "U+0308",
    "U+0301">>, <<"U+0391">>, <<"U+0392">>, <<"U+0393">>, <<"U+0394">>,
    <<"U+0395">>, <<"U+0396">>, <<"U+0397">>, <<"U+0398">>, <<"U+0399">>,
    <<"U+039A">>, <<"U+039B">>, <<"U+039C">>, <<"U+039D">>, <<"U+039E">>,
    <<"U+039F">>, <<"U+03A0">>, <<"U+03A1">>, <<"U+03A3">>, <<"U+03A3">>,
    <<"U+03A4">>, <<"U+03A5">>, <<"U+03A6">>, <<"U+03A7">>, <<"U+03A8">>,
    <<"U+03A9">>, <<"U+03AA">>, <<"U+03AB">>, <<"U+038C">>, <<"U+038E">>,
    <<"U+038F">>, <<"U+0392">>, <<"U+0398">>, <<"U+03A6">>, <<"U+03A0">>,
    <<"U+03CF">>, <<"U+03D8">>, <<"U+03DA">>, <<"U+03DC">>, <<"U+03DE">>,
    <<"U+03E0">>, <<"U+03E2">>, <<"U+03E4">>, <<"U+03E6">>, <<"U+03E8">>,
    <<"U+03EA">>, <<"U+03EC">>, <<"U+03EE">>, <<"U+039A">>, <<"U+03A1">>,
    <<"U+03F9">>, <<"U+037F">>, <<"U+0395">>, <<"U+03F7">>, <<"U+03FA">>,
    <<"U+0410">>, <<"U+0411">>, <<"U+0412">>, <<"U+0413">>, <<"U+0414">>,
    <<"U+0415">>, <<"U+0416">>, <<"U+0417">>, <<"U+0418">>, <<"U+0419">>,
    <<"U+041A">>, <<"U+041B">>, <<"U+041C">>, <<"U+041D">>, <<"U+041E">>,
    <<"U+041F">>, <<"U+0420">>, <<"U+0421">>, <<"U+0422">>, <<"U+0423">>,
    <<"U+0424">>, <<"U+0425">>, <<"U+0426">>, <<"U+0427">>, <<"U+0428">>,
    <<"U+0429">>, <<"U+042A">>, <<"U+042B">>, <<"U+042C">>, <<"U+042D">>,
    <<"U+042E">>, <<"U+042F">>, <<"U+0400">>, <<"U+0401">>, <<"U+0402">>,
    <<"U+0403">>, <<"U+0404">>, <<"U+0405">>, <<"U+0406">>, <<"U+0407">>,
    <<"U+0408">>, <<"U+0409">>, <<"U+040A">>, <<"U+040B">>, <<"U+040C">>,
    <<"U+040D">>, <<"U+040E">>, <<"U+040F">>, <<"U+0460">>, <<"U+0462">>,
    <<"U+0464">>, <<"U+0466">>, <<"U+0468">>, <<"U+046A">>, <<"U+046C">>,
    <<"U+046E">>, <<"U+0470">>, <<"U+0472">>, <<"U+0474">>, <<"U+0476">>,
    <<"U+0478">>, <<"U+047A">>, <<"U+047C">>, <<"U+047E">>, <<"U+0480">>,
    <<"U+048A">>, <<"U+048C">>, <<"U+048E">>, <<"U+0490">>, <<"U+0492">>,
    <<"U+0494">>, <<"U+0496">>, <<"U+0498">>, <<"U+049A">>, <<"U+049C">>,
    <<"U+049E">>, <<"U+04A0">>, <<"U+04A2">>, <<"U+04A4">>, <<"U+04A6">>,
    <<"U+04A8">>, <<"U+04AA">>, <<"U+04AC">>, <<"U+04AE">>, <<"U+04B0">>,
    <<"U+04B2">>, <<"U+04B4">>, <<"U+04B6">>, <<"U+04B8">>, <<"U+04BA">>,
    <<"U+04BC">>, <<"U+04BE">>, <<"U+04C1">>, <<"U+04C3">>, <<"U+04C5">>,
    <<"U+04C7">>, <<"U+04C9">>, <<"U+04CB">>, <<"U+04CD">>, <<"U+04C0">>,
    <<"U+04D0">>, <<"U+04D2">>, <<"U+04D4">>, <<"U+04D6">>, <<"U+04D8">>,
    <<"U+04DA">>, <<"U+04DC">>, <<"U+04DE">>, <<"U+04E0">>, <<"U+04E2">>,
    <<"U+04E4">>, <<"U+04E6">>, <<"U+04E8">>, <<"U+04EA">>, <<"U+04EC">>,
    <<"U+04EE">>, <<"U+04F0">>, <<"U+04F2">>, <<"U+04F4">>, <<"U+04F6">>,
    <<"U+04F8">>, <<"U+04FA">>, <<"U+04FC">>, <<"U+04FE">>, <<"U+0500">>,
    <<"U+0502">>, <<"U+0504">>, <<"U+0506">>, <<"U+0508">>, <<"U+050A">>,
    <<"U+050C">>, <<"U+050E">>, <<"U+0510">>, <<"U+0512">>, <<"U+0514">>,
    <<"U+0516">>, <<"U+0518">>, <<"U+051A">>, <<"U+051C">>, <<"U+051E">>,
    <<"U+0520">>, <<"U+0522">>, <<"U+0524">>, <<"U+0526">>, <<"U+0528">>,
    <<"U+052A">>, <<"U+052C">>, <<"U+052E">>, <<"U+0531">>, <<"U+0532">>,
    <<"U+0533">>, <<"U+0534">>, <<"U+0535">>, <<"U+0536">>, <<"U+0537">>,
    <<"U+0538">>, <<"U+0539">>, <<"U+053A">>, <<"U+053B">>, <<"U+053C">>,
    <<"U+053D">>, <<"U+053E">>, <<"U+053F">>, <<"U+0540">>, <<"U+0541">>,
    <<"U+0542">>, <<"U+0543">>, <<"U+0544">>, <<"U+0545">>, <<"U+0546">>,
    <<"U+0547">>, <<"U+0548">>, <<"U+0549">>, <<"U+054A">>, <<"U+054B">>,
    <<"U+054C">>, <<"U+054D">>, <<"U+054E">>, <<"U+054F">>, <<"U+0550">>,
    <<"U+0551">>, <<"U+0552">>, <<"U+0553">>, <<"U+0554">>, <<"U+0555">>,
    <<"U+0556">>, <<"U+0535", "U+0552">>, <<"U+1C90">>, <<"U+1C91">>,
    <<"U+1C92">>, <<"U+1C93">>, <<"U+1C94">>, <<"U+1C95">>, <<"U+1C96">>,
    <<"U+1C97">>, <<"U+1C98">>, <<"U+1C99">>, <<"U+1C9A">>, <<"U+1C9B">>,
    <<"U+1C9C">>, <<"U+1C9D">>, <<"U+1C9E">>, <<"U+1C9F">>, <<"U+1CA0">>,
    <<"U+1CA1">>, <<"U+1CA2">>, <<"U+1CA3">>, <<"U+1CA4">>, <<"U+1CA5">>,
    <<"U+1CA6">>, <<"U+1CA7">>, <<"U+1CA8">>, <<"U+1CA9">>, <<"U+1CAA">>,
    <<"U+1CAB">>, <<"U+1CAC">>, <<"U+1CAD">>, <<"U+1CAE">>, <<"U+1CAF">>,
    <<"U+1CB0">>, <<"U+1CB1">>, <<"U+1CB2">>, <<"U+1CB3">>, <<"U+1CB4">>,
    <<"U+1CB5">>, <<"U+1CB6">>, <<"U+1CB7">>, <<"U+1CB8">>, <<"U+1CB9">>,
    <<"U+1CBA">>, <<"U+1CBD">>, <<"U+1CBE">>, <<"U+1CBF">>, <<"U+13F0">>,
    <<"U+13F1">>, <<"U+13F2">>, <<"U+13F3">>, <<"U+13F4">>, <<"U+13F5">>,
    <<"U+0412">>, <<"U+0414">>, <<"U+041E">>, <<"U+0421">>, <<"U+0422">>,
    <<"U+0422">>, <<"U+042A">>, <<"U+0462">>, <<"U+A64A">>, <<"U+1C89">>,
    <<"U+A77D">>, <<"U+2C63">>, <<"U+A7C6">>, <<"U+1E00">>, <<"U+1E02">>,
    <<"U+1E04">>, <<"U+1E06">>, <<"U+1E08">>, <<"U+1E0A">>, <<"U+1E0C">>,
    <<"U+1E0E">>, <<"U+1E10">>, <<"U+1E12">>, <<"U+1E14">>, <<"U+1E16">>,
    <<"U+1E18">>, <<"U+1E1A">>, <<"U+1E1C">>, <<"U+1E1E">>, <<"U+1E20">>,
    <<"U+1E22">>, <<"U+1E24">>, <<"U+1E26">>, <<"U+1E28">>, <<"U+1E2A">>,
    <<"U+1E2C">>, <<"U+1E2E">>, <<"U+1E30">>, <<"U+1E32">>, <<"U+1E34">>,
    <<"U+1E36">>, <<"U+1E38">>, <<"U+1E3A">>, <<"U+1E3C">>, <<"U+1E3E">>,
    <<"U+1E40">>, <<"U+1E42">>, <<"U+1E44">>, <<"U+1E46">>, <<"U+1E48">>,
    <<"U+1E4A">>, <<"U+1E4C">>, <<"U+1E4E">>, <<"U+1E50">>, <<"U+1E52">>,
    <<"U+1E54">>, <<"U+1E56">>, <<"U+1E58">>, <<"U+1E5A">>, <<"U+1E5C">>,
    <<"U+1E5E">>, <<"U+1E60">>, <<"U+1E62">>, <<"U+1E64">>, <<"U+1E66">>,
    <<"U+1E68">>, <<"U+1E6A">>, <<"U+1E6C">>, <<"U+1E6E">>, <<"U+1E70">>,
    <<"U+1E72">>, <<"U+1E74">>, <<"U+1E76">>, <<"U+1E78">>, <<"U+1E7A">>,
    <<"U+1E7C">>, <<"U+1E7E">>, <<"U+1E80">>, <<"U+1E82">>, <<"U+1E84">>,
    <<"U+1E86">>, <<"U+1E88">>, <<"U+1E8A">>, <<"U+1E8C">>, <<"U+1E8E">>,
    <<"U+1E90">>, <<"U+1E92">>, <<"U+1E94">>, <<"H", "U+0331">>, <<"T",
    "U+0308">>, <<"W", "U+030A">>, <<"Y", "U+030A">>, <<"A", "U+02BE">>,
    <<"U+1E60">>, <<"U+1EA0">>, <<"U+1EA2">>, <<"U+1EA4">>, <<"U+1EA6">>,
    <<"U+1EA8">>, <<"U+1EAA">>, <<"U+1EAC">>, <<"U+1EAE">>, <<"U+1EB0">>,
    <<"U+1EB2">>, <<"U+1EB4">>, <<"U+1EB6">>, <<"U+1EB8">>, <<"U+1EBA">>,
    <<"U+1EBC">>, <<"U+1EBE">>, <<"U+1EC0">>, <<"U+1EC2">>, <<"U+1EC4">>,
    <<"U+1EC6">>, <<"U+1EC8">>, <<"U+1ECA">>, <<"U+1ECC">>, <<"U+1ECE">>,
    <<"U+1ED0">>, <<"U+1ED2">>, <<"U+1ED4">>, <<"U+1ED6">>, <<"U+1ED8">>,
    <<"U+1EDA">>, <<"U+1EDC">>, <<"U+1EDE">>, <<"U+1EE0">>, <<"U+1EE2">>,
    <<"U+1EE4">>, <<"U+1EE6">>, <<"U+1EE8">>, <<"U+1EEA">>, <<"U+1EEC">>,
    <<"U+1EEE">>, <<"U+1EF0">>, <<"U+1EF2">>, <<"U+1EF4">>, <<"U+1EF6">>,
    <<"U+1EF8">>, <<"U+1EFA">>, <<"U+1EFC">>, <<"U+1EFE">>, <<"U+1F08">>,
    <<"U+1F09">>, <<"U+1F0A">>, <<"U+1F0B">>, <<"U+1F0C">>, <<"U+1F0D">>,
    <<"U+1F0E">>, <<"U+1F0F">>, <<"U+1F18">>, <<"U+1F19">>, <<"U+1F1A">>,
    <<"U+1F1B">>, <<"U+1F1C">>, <<"U+1F1D">>, <<"U+1F28">>, <<"U+1F29">>,
    <<"U+1F2A">>, <<"U+1F2B">>, <<"U+1F2C">>, <<"U+1F2D">>, <<"U+1F2E">>,
    <<"U+1F2F">>, <<"U+1F38">>, <<"U+1F39">>, <<"U+1F3A">>, <<"U+1F3B">>,
    <<"U+1F3C">>, <<"U+1F3D">>, <<"U+1F3E">>, <<"U+1F3F">>, <<"U+1F48">>,
    <<"U+1F49">>, <<"U+1F4A">>, <<"U+1F4B">>, <<"U+1F4C">>, <<"U+1F4D">>,
    <<"U+03A5", "U+0313">>, <<"U+1F59">>, <<"U+03A5", "U+0313", "U+0300">>,
    <<"U+1F5B">>, <<"U+03A5", "U+0313", "U+0301">>, <<"U+1F5D">>, <<"U+03A5",
    "U+0313", "U+0342">>, <<"U+1F5F">>, <<"U+1F68">>, <<"U+1F69">>,
    <<"U+1F6A">>, <<"U+1F6B">>, <<"U+1F6C">>, <<"U+1F6D">>, <<"U+1F6E">>,
    <<"U+1F6F">>, <<"U+1FBA">>, <<"U+1FBB">>, <<"U+1FC8">>, <<"U+1FC9">>,
    <<"U+1FCA">>, <<"U+1FCB">>, <<"U+1FDA">>, <<"U+1FDB">>, <<"U+1FF8">>,
    <<"U+1FF9">>, <<"U+1FEA">>, <<"U+1FEB">>, <<"U+1FFA">>, <<"U+1FFB">>,
    <<"U+1F08", "U+0399">>, <<"U+1F09", "U+0399">>, <<"U+1F0A", "U+0399">>,
    <<"U+1F0B", "U+0399">>, <<"U+1F0C", "U+0399">>, <<"U+1F0D", "U+0399">>,
    <<"U+1F0E", "U+0399">>, <<"U+1F0F", "U+0399">>, <<"U+1F08", "U+0399">>,
    <<"U+1F09", "U+0399">>, <<"U+1F0A", "U+0399">>, <<"U+1F0B", "U+0399">>,
    <<"U+1F0C", "U+0399">>, <<"U+1F0D", "U+0399">>, <<"U+1F0E", "U+0399">>,
    <<"U+1F0F", "U+0399">>, <<"U+1F28", "U+0399">>, <<"U+1F29", "U+0399">>,
    <<"U+1F2A", "U+0399">>, <<"U+1F2B", "U+0399">>, <<"U+1F2C", "U+0399">>,
    <<"U+1F2D", "U+0399">>, <<"U+1F2E", "U+0399">>, <<"U+1F2F", "U+0399">>,
    <<"U+1F28", "U+0399">>, <<"U+1F29", "U+0399">>, <<"U+1F2A", "U+0399">>,
    <<"U+1F2B", "U+0399">>, <<"U+1F2C", "U+0399">>, <<"U+1F2D", "U+0399">>,
    <<"U+1F2E", "U+0399">>, <<"U+1F2F", "U+0399">>, <<"U+1F68", "U+0399">>,
    <<"U+1F69", "U+0399">>, <<"U+1F6A", "U+0399">>, <<"U+1F6B", "U+0399">>,
    <<"U+1F6C", "U+0399">>, <<"U+1F6D", "U+0399">>, <<"U+1F6E", "U+0399">>,
    <<"U+1F6F", "U+0399">>, <<"U+1F68", "U+0399">>, <<"U+1F69", "U+0399">>,
    <<"U+1F6A", "U+0399">>, <<"U+1F6B", "U+0399">>, <<"U+1F6C", "U+0399">>,
    <<"U+1F6D", "U+0399">>, <<"U+1F6E", "U+0399">>, <<"U+1F6F", "U+0399">>,
    <<"U+1FB8">>, <<"U+1FB9">>, <<"U+1FBA", "U+0399">>, <<"U+0391",
    "U+0399">>, <<"U+0386", "U+0399">>, <<"U+0391", "U+0342">>, <<"U+0391",
    "U+0342", "U+0399">>, <<"U+0391", "U+0399">>, <<"U+0399">>, <<"U+1FCA",
    "U+0399">>, <<"U+0397", "U+0399">>, <<"U+0389", "U+0399">>, <<"U+0397",
    "U+0342">>, <<"U+0397", "U+0342", "U+0399">>, <<"U+0397", "U+0399">>,
    <<"U+1FD8">>, <<"U+1FD9">>, <<"U+0399", "U+0308", "U+0300">>, <<"U+0399",
    "U+0308", "U+0301">>, <<"U+0399", "U+0342">>, <<"U+0399", "U+0308",
    "U+0342">>, <<"U+1FE8">>, <<"U+1FE9">>, <<"U+03A5", "U+0308", "U+0300">>,
    <<"U+03A5", "U+0308", "U+0301">>, <<"U+03A1", "U+0313">>, <<"U+1FEC">>,
    <<"U+03A5", "U+0342">>, <<"U+03A5", "U+0308", "U+0342">>, <<"U+1FFA",
    "U+0399">>, <<"U+03A9", "U+0399">>, <<"U+038F", "U+0399">>, <<"U+03A9",
    "U+0342">>, <<"U+03A9", "U+0342", "U+0399">>, <<"U+03A9", "U+0399">>,
    <<"U+2132">>, <<"U+2160">>, <<"U+2161">>, <<"U+2162">>, <<"U+2163">>,
    <<"U+2164">>, <<"U+2165">>, <<"U+2166">>, <<"U+2167">>, <<"U+2168">>,
    <<"U+2169">>, <<"U+216A">>, <<"U+216B">>, <<"U+216C">>, <<"U+216D">>,
    <<"U+216E">>, <<"U+216F">>, <<"U+2183">>, <<"U+24B6">>, <<"U+24B7">>,
    <<"U+24B8">>, <<"U+24B9">>, <<"U+24BA">>, <<"U+24BB">>, <<"U+24BC">>,
    <<"U+24BD">>, <<"U+24BE">>, <<"U+24BF">>, <<"U+24C0">>, <<"U+24C1">>,
    <<"U+24C2">>, <<"U+24C3">>, <<"U+24C4">>, <<"U+24C5">>, <<"U+24C6">>,
    <<"U+24C7">>, <<"U+24C8">>, <<"U+24C9">>, <<"U+24CA">>, <<"U+24CB">>,
    <<"U+24CC">>, <<"U+24CD">>, <<"U+24CE">>, <<"U+24CF">>, <<"U+2C00">>,
    <<"U+2C01">>, <<"U+2C02">>, <<"U+2C03">>, <<"U+2C04">>, <<"U+2C05">>,
    <<"U+2C06">>, <<"U+2C07">>, <<"U+2C08">>, <<"U+2C09">>, <<"U+2C0A">>,
    <<"U+2C0B">>, <<"U+2C0C">>, <<"U+2C0D">>, <<"U+2C0E">>, <<"U+2C0F">>,
    <<"U+2C10">>, <<"U+2C11">>, <<"U+2C12">>, <<"U+2C13">>, <<"U+2C14">>,
    <<"U+2C15">>, <<"U+2C16">>, <<"U+2C17">>, <<"U+2C18">>, <<"U+2C19">>,
    <<"U+2C1A">>, <<"U+2C1B">>, <<"U+2C1C">>, <<"U+2C1D">>, <<"U+2C1E">>,
    <<"U+2C1F">>, <<"U+2C20">>, <<"U+2C21">>, <<"U+2C22">>, <<"U+2C23">>,
    <<"U+2C24">>, <<"U+2C25">>, <<"U+2C26">>, <<"U+2C27">>, <<"U+2C28">>,
    <<"U+2C29">>, <<"U+2C2A">>, <<"U+2C2B">>, <<"U+2C2C">>, <<"U+2C2D">>,
    <<"U+2C2E">>, <<"U+2C2F">>, <<"U+2C60">>, <<"U+023A">>, <<"U+023E">>,
    <<"U+2C67">>, <<"U+2C69">>, <<"U+2C6B">>, <<"U+2C72">>, <<"U+2C75">>,
    <<"U+2C80">>, <<"U+2C82">>, <<"U+2C84">>, <<"U+2C86">>, <<"U+2C88">>,
    <<"U+2C8A">>, <<"U+2C8C">>, <<"U+2C8E">>, <<"U+2C90">>, <<"U+2C92">>,
    <<"U+2C94">>, <<"U+2C96">>, <<"U+2C98">>, <<"U+2C9A">>, <<"U+2C9C">>,
    <<"U+2C9E">>, <<"U+2CA0">>, <<"U+2CA2">>, <<"U+2CA4">>, <<"U+2CA6">>,
    <<"U+2CA8">>, <<"U+2CAA">>, <<"U+2CAC">>, <<"U+2CAE">>, <<"U+2CB0">>,
    <<"U+2CB2">>, <<"U+2CB4">>, <<"U+2CB6">>, <<"U+2CB8">>, <<"U+2CBA">>,
    <<"U+2CBC">>, <<"U+2CBE">>, <<"U+2CC0">>, <<"U+2CC2">>, <<"U+2CC4">>,
    <<"U+2CC6">>, <<"U+2CC8">>, <<"U+2CCA">>, <<"U+2CCC">>, <<"U+2CCE">>,
    <<"U+2CD0">>, <<"U+2CD2">>, <<"U+2CD4">>, <<"U+2CD6">>, <<"U+2CD8">>,
    <<"U+2CDA">>, <<"U+2CDC">>, <<"U+2CDE">>, <<"U+2CE0">>, <<"U+2CE2">>,
    <<"U+2CEB">>, <<"U+2CED">>, <<"U+2CF2">>, <<"U+10A0">>, <<"U+10A1">>,
    <<"U+10A2">>, <<"U+10A3">>, <<"U+10A4">>, <<"U+10A5">>, <<"U+10A6">>,
    <<"U+10A7">>, <<"U+10A8">>, <<"U+10A9">>, <<"U+10AA">>, <<"U+10AB">>,
    <<"U+10AC">>, <<"U+10AD">>, <<"U+10AE">>, <<"U+10AF">>, <<"U+10B0">>,
    <<"U+10B1">>, <<"U+10B2">>, <<"U+10B3">>, <<"U+10B4">>, <<"U+10B5">>,
    <<"U+10B6">>, <<"U+10B7">>, <<"U+10B8">>, <<"U+10B9">>, <<"U+10BA">>,
    <<"U+10BB">>, <<"U+10BC">>, <<"U+10BD">>, <<"U+10BE">>, <<"U+10BF">>,
    <<"U+10C0">>, <<"U+10C1">>, <<"U+10C2">>, <<"U+10C3">>, <<"U+10C4">>,
    <<"U+10C5">>, <<"U+10C7">>, <<"U+10CD">>, <<"U+A640">>, <<"U+A642">>,
    <<"U+A644">>, <<"U+A646">>, <<"U+A648">>, <<"U+A64A">>, <<"U+A64C">>,
    <<"U+A64E">>, <<"U+A650">>, <<"U+A652">>, <<"U+A654">>, <<"U+A656">>,
    <<"U+A658">>, <<"U+A65A">>, <<"U+A65C">>, <<"U+A65E">>, <<"U+A660">>,
    <<"U+A662">>, <<"U+A664">>, <<"U+A666">>, <<"U+A668">>, <<"U+A66A">>,
    <<"U+A66C">>, <<"U+A680">>, <<"U+A682">>, <<"U+A684">>, <<"U+A686">>,
    <<"U+A688">>, <<"U+A68A">>, <<"U+A68C">>, <<"U+A68E">>, <<"U+A690">>,
    <<"U+A692">>, <<"U+A694">>, <<"U+A696">>, <<"U+A698">>, <<"U+A69A">>,
    <<"U+A722">>, <<"U+A724">>, <<"U+A726">>, <<"U+A728">>, <<"U+A72A">>,
    <<"U+A72C">>, <<"U+A72E">>, <<"U+A732">>, <<"U+A734">>, <<"U+A736">>,
    <<"U+A738">>, <<"U+A73A">>, <<"U+A73C">>, <<"U+A73E">>, <<"U+A740">>,
    <<"U+A742">>, <<"U+A744">>, <<"U+A746">>, <<"U+A748">>, <<"U+A74A">>,
    <<"U+A74C">>, <<"U+A74E">>, <<"U+A750">>, <<"U+A752">>, <<"U+A754">>,
    <<"U+A756">>, <<"U+A758">>, <<"U+A75A">>, <<"U+A75C">>, <<"U+A75E">>,
    <<"U+A760">>, <<"U+A762">>, <<"U+A764">>, <<"U+A766">>, <<"U+A768">>,
    <<"U+A76A">>, <<"U+A76C">>, <<"U+A76E">>, <<"U+A779">>, <<"U+A77B">>,
    <<"U+A77E">>, <<"U+A780">>, <<"U+A782">>, <<"U+A784">>, <<"U+A786">>,
    <<"U+A78B">>, <<"U+A790">>, <<"U+A792">>, <<"U+A7C4">>, <<"U+A796">>,
    <<"U+A798">>, <<"U+A79A">>, <<"U+A79C">>, <<"U+A79E">>, <<"U+A7A0">>,
    <<"U+A7A2">>, <<"U+A7A4">>, <<"U+A7A6">>, <<"U+A7A8">>, <<"U+A7B4">>,
    <<"U+A7B6">>, <<"U+A7B8">>, <<"U+A7BA">>, <<"U+A7BC">>, <<"U+A7BE">>,
    <<"U+A7C0">>, <<"U+A7C2">>, <<"U+A7C7">>, <<"U+A7C9">>, <<"U+A7CC">>,
    <<"U+A7CE">>, <<"U+A7D0">>, <<"U+A7D2">>, <<"U+A7D4">>, <<"U+A7D6">>,
    <<"U+A7D8">>, <<"U+A7DA">>, <<"U+A7F5">>, <<"U+A7B3">>, <<"U+13A0">>,
    <<"U+13A1">>, <<"U+13A2">>, <<"U+13A3">>, <<"U+13A4">>, <<"U+13A5">>,
    <<"U+13A6">>, <<"U+13A7">>, <<"U+13A8">>, <<"U+13A9">>, <<"U+13AA">>,
    <<"U+13AB">>, <<"U+13AC">>, <<"U+13AD">>, <<"U+13AE">>, <<"U+13AF">>,
    <<"U+13B0">>, <<"U+13B1">>, <<"U+13B2">>, <<"U+13B3">>, <<"U+13B4">>,
    <<"U+13B5">>, <<"U+13B6">>, <<"U+13B7">>, <<"U+13B8">>, <<"U+13B9">>,
    <<"U+13BA">>, <<"U+13BB">>, <<"U+13BC">>, <<"U+13BD">>, <<"U+13BE">>,
    <<"U+13BF">>, <<"U+13C0">>, <<"U+13C1">>, <<"U+13C2">>, <<"U+13C3">>,
    <<"U+13C4">>, <<"U+13C5">>, <<"U+13C6">>, <<"U+13C7">>, <<"U+13C8">>,
    <<"U+13C9">>, <<"U+13CA">>, <<"U+13CB">>, <<"U+13CC">>, <<"U+13CD">>,
    <<"U+13CE">>, <<"U+13CF">>, <<"U+13D0">>, <<"U+13D1">>, <<"U+13D2">>,
    <<"U+13D3">>, <<"U+13D4">>, <<"U+13D5">>, <<"U+13D6">>, <<"U+13D7">>,
    <<"U+13D8">>, <<"U+13D9">>, <<"U+13DA">>, <<"U+13DB">>, <<"U+13DC">>,
    <<"U+13DD">>, <<"U+13DE">>, <<"U+13DF">>, <<"U+13E0">>, <<"U+13E1">>,
    <<"U+13E2">>, <<"U+13E3">>, <<"U+13E4">>, <<"U+13E5">>, <<"U+13E6">>,
    <<"U+13E7">>, <<"U+13E8">>, <<"U+13E9">>, <<"U+13EA">>, <<"U+13EB">>,
    <<"U+13EC">>, <<"U+13ED">>, <<"U+13EE">>, <<"U+13EF">>, <<"F", "F">>,
    <<"F", "I">>, <<"F", "L">>, <<"F", "F", "I">>, <<"F", "F", "L">>, <<"S",
    "T">>, <<"S", "T">>, <<"U+0544", "U+0546">>, <<"U+0544", "U+0535">>,
    <<"U+0544", "U+053B">>, <<"U+054E", "U+0546">>, <<"U+0544", "U+053D">>,
    <<"U+FF21">>, <<"U+FF22">>, <<"U+FF23">>, <<"U+FF24">>, <<"U+FF25">>,
    <<"U+FF26">>, <<"U+FF27">>, <<"U+FF28">>, <<"U+FF29">>, <<"U+FF2A">>,
    <<"U+FF2B">>, <<"U+FF2C">>, <<"U+FF2D">>, <<"U+FF2E">>, <<"U+FF2F">>,
    <<"U+FF30">>, <<"U+FF31">>, <<"U+FF32">>, <<"U+FF33">>, <<"U+FF34">>,
    <<"U+FF35">>, <<"U+FF36">>, <<"U+FF37">>, <<"U+FF38">>, <<"U+FF39">>,
    <<"U+FF3A">>, <<"U+D801", "U+DC00">>, <<"U+D801", "U+DC01">>, <<"U+D801",
    "U+DC02">>, <<"U+D801", "U+DC03">>, <<"U+D801", "U+DC04">>, <<"U+D801",
    "U+DC05">>, <<"U+D801", "U+DC06">>, <<"U+D801", "U+DC07">>, <<"U+D801",
    "U+DC08">>, <<"U+D801", "U+DC09">>, <<"U+D801", "U+DC0A">>, <<"U+D801",
    "U+DC0B">>, <<"U+D801", "U+DC0C">>, <<"U+D801", "U+DC0D">>, <<"U+D801",
    "U+DC0E">>, <<"U+D801", "U+DC0F">>, <<"U+D801", "U+DC10">>, <<"U+D801",
    "U+DC11">>, <<"U+D801", "U+DC12">>, <<"U+D801", "U+DC13">>, <<"U+D801",
    "U+DC14">>, <<"U+D801", "U+DC15">>, <<"U+D801", "U+DC16">>, <<"U+D801",
    "U+DC17">>, <<"U+D801", "U+DC18">>, <<"U+D801", "U+DC19">>, <<"U+D801",
    "U+DC1A">>, <<"U+D801", "U+DC1B">>, <<"U+D801", "U+DC1C">>, <<"U+D801",
    "U+DC1D">>, <<"U+D801", "U+DC1E">>, <<"U+D801", "U+DC1F">>, <<"U+D801",
    "U+DC20">>, <<"U+D801", "U+DC21">>, <<"U+D801", "U+DC22">>, <<"U+D801",
    "U+DC23">>, <<"U+D801", "U+DC24">>, <<"U+D801", "U+DC25">>, <<"U+D801",
    "U+DC26">>, <<"U+D801", "U+DC27">>, <<"U+D801", "U+DCB0">>, <<"U+D801",
    "U+DCB1">>, <<"U+D801", "U+DCB2">>, <<"U+D801", "U+DCB3">>, <<"U+D801",
    "U+DCB4">>, <<"U+D801", "U+DCB5">>, <<"U+D801", "U+DCB6">>, <<"U+D801",
    "U+DCB7">>, <<"U+D801", "U+DCB8">>, <<"U+D801", "U+DCB9">>, <<"U+D801",
    "U+DCBA">>, <<"U+D801", "U+DCBB">>, <<"U+D801", "U+DCBC">>, <<"U+D801",
    "U+DCBD">>, <<"U+D801", "U+DCBE">>, <<"U+D801", "U+DCBF">>, <<"U+D801",
    "U+DCC0">>, <<"U+D801", "U+DCC1">>, <<"U+D801", "U+DCC2">>, <<"U+D801",
    "U+DCC3">>, <<"U+D801", "U+DCC4">>, <<"U+D801", "U+DCC5">>, <<"U+D801",
    "U+DCC6">>, <<"U+D801", "U+DCC7">>, <<"U+D801", "U+DCC8">>, <<"U+D801",
    "U+DCC9">>, <<"U+D801", "U+DCCA">>, <<"U+D801", "U+DCCB">>, <<"U+D801",
    "U+DCCC">>, <<"U+D801", "U+DCCD">>, <<"U+D801", "U+DCCE">>, <<"U+D801",
    "U+DCCF">>, <<"U+D801", "U+DCD0">>, <<"U+D801", "U+DCD1">>, <<"U+D801",
    "U+DCD2">>, <<"U+D801", "U+DCD3">>, <<"U+D801", "U+DD70">>, <<"U+D801",
    "U+DD71">>, <<"U+D801", "U+DD72">>, <<"U+D801", "U+DD73">>, <<"U+D801",
    "U+DD74">>, <<"U+D801", "U+DD75">>, <<"U+D801", "U+DD76">>, <<"U+D801",
    "U+DD77">>, <<"U+D801", "U+DD78">>, <<"U+D801", "U+DD79">>, <<"U+D801",
    "U+DD7A">>, <<"U+D801", "U+DD7C">>, <<"U+D801", "U+DD7D">>, <<"U+D801",
    "U+DD7E">>, <<"U+D801", "U+DD7F">>, <<"U+D801", "U+DD80">>, <<"U+D801",
    "U+DD81">>, <<"U+D801", "U+DD82">>, <<"U+D801", "U+DD83">>, <<"U+D801",
    "U+DD84">>, <<"U+D801", "U+DD85">>, <<"U+D801", "U+DD86">>, <<"U+D801",
    "U+DD87">>, <<"U+D801", "U+DD88">>, <<"U+D801", "U+DD89">>, <<"U+D801",
    "U+DD8A">>, <<"U+D801", "U+DD8C">>, <<"U+D801", "U+DD8D">>, <<"U+D801",
    "U+DD8E">>, <<"U+D801", "U+DD8F">>, <<"U+D801", "U+DD90">>, <<"U+D801",
    "U+DD91">>, <<"U+D801", "U+DD92">>, <<"U+D801", "U+DD94">>, <<"U+D801",
    "U+DD95">>, <<"U+D803", "U+DC80">>, <<"U+D803", "U+DC81">>, <<"U+D803",
    "U+DC82">>, <<"U+D803", "U+DC83">>, <<"U+D803", "U+DC84">>, <<"U+D803",
    "U+DC85">>, <<"U+D803", "U+DC86">>, <<"U+D803", "U+DC87">>, <<"U+D803",
    "U+DC88">>, <<"U+D803", "U+DC89">>, <<"U+D803", "U+DC8A">>, <<"U+D803",
    "U+DC8B">>, <<"U+D803", "U+DC8C">>, <<"U+D803", "U+DC8D">>, <<"U+D803",
    "U+DC8E">>, <<"U+D803", "U+DC8F">>, <<"U+D803", "U+DC90">>, <<"U+D803",
    "U+DC91">>, <<"U+D803", "U+DC92">>, <<"U+D803", "U+DC93">>, <<"U+D803",
    "U+DC94">>, <<"U+D803", "U+DC95">>, <<"U+D803", "U+DC96">>, <<"U+D803",
    "U+DC97">>, <<"U+D803", "U+DC98">>, <<"U+D803", "U+DC99">>, <<"U+D803",
    "U+DC9A">>, <<"U+D803", "U+DC9B">>, <<"U+D803", "U+DC9C">>, <<"U+D803",
    "U+DC9D">>, <<"U+D803", "U+DC9E">>, <<"U+D803", "U+DC9F">>, <<"U+D803",
    "U+DCA0">>, <<"U+D803", "U+DCA1">>, <<"U+D803", "U+DCA2">>, <<"U+D803",
    "U+DCA3">>, <<"U+D803", "U+DCA4">>, <<"U+D803", "U+DCA5">>, <<"U+D803",
    "U+DCA6">>, <<"U+D803", "U+DCA7">>, <<"U+D803", "U+DCA8">>, <<"U+D803",
    "U+DCA9">>, <<"U+D803", "U+DCAA">>, <<"U+D803", "U+DCAB">>, <<"U+D803",
    "U+DCAC">>, <<"U+D803", "U+DCAD">>, <<"U+D803", "U+DCAE">>, <<"U+D803",
    "U+DCAF">>, <<"U+D803", "U+DCB0">>, <<"U+D803", "U+DCB1">>, <<"U+D803",
    "U+DCB2">>, <<"U+D803", "U+DD50">>, <<"U+D803", "U+DD51">>, <<"U+D803",
    "U+DD52">>, <<"U+D803", "U+DD53">>, <<"U+D803", "U+DD54">>, <<"U+D803",
    "U+DD55">>, <<"U+D803", "U+DD56">>, <<"U+D803", "U+DD57">>, <<"U+D803",
    "U+DD58">>, <<"U+D803", "U+DD59">>, <<"U+D803", "U+DD5A">>, <<"U+D803",
    "U+DD5B">>, <<"U+D803", "U+DD5C">>, <<"U+D803", "U+DD5D">>, <<"U+D803",
    "U+DD5E">>, <<"U+D803", "U+DD5F">>, <<"U+D803", "U+DD60">>, <<"U+D803",
    "U+DD61">>, <<"U+D803", "U+DD62">>, <<"U+D803", "U+DD63">>, <<"U+D803",
    "U+DD64">>, <<"U+D803", "U+DD65">>, <<"U+D806", "U+DCA0">>, <<"U+D806",
    "U+DCA1">>, <<"U+D806", "U+DCA2">>, <<"U+D806", "U+DCA3">>, <<"U+D806",
    "U+DCA4">>, <<"U+D806", "U+DCA5">>, <<"U+D806", "U+DCA6">>, <<"U+D806",
    "U+DCA7">>, <<"U+D806", "U+DCA8">>, <<"U+D806", "U+DCA9">>, <<"U+D806",
    "U+DCAA">>, <<"U+D806", "U+DCAB">>, <<"U+D806", "U+DCAC">>, <<"U+D806",
    "U+DCAD">>, <<"U+D806", "U+DCAE">>, <<"U+D806", "U+DCAF">>, <<"U+D806",
    "U+DCB0">>, <<"U+D806", "U+DCB1">>, <<"U+D806", "U+DCB2">>, <<"U+D806",
    "U+DCB3">>, <<"U+D806", "U+DCB4">>, <<"U+D806", "U+DCB5">>, <<"U+D806",
    "U+DCB6">>, <<"U+D806", "U+DCB7">>, <<"U+D806", "U+DCB8">>, <<"U+D806",
    "U+DCB9">>, <<"U+D806", "U+DCBA">>, <<"U+D806", "U+DCBB">>, <<"U+D806",
    "U+DCBC">>, <<"U+D806", "U+DCBD">>, <<"U+D806", "U+DCBE">>, <<"U+D806",
    "U+DCBF">>, <<"U+D81B", "U+DE40">>, <<"U+D81B", "U+DE41">>, <<"U+D81B",
    "U+DE42">>, <<"U+D81B", "U+DE43">>, <<"U+D81B", "U+DE44">>, <<"U+D81B",
    "U+DE45">>, <<"U+D81B", "U+DE46">>, <<"U+D81B", "U+DE47">>, <<"U+D81B",
    "U+DE48">>, <<"U+D81B", "U+DE49">>, <<"U+D81B", "U+DE4A">>, <<"U+D81B",
    "U+DE4B">>, <<"U+D81B", "U+DE4C">>, <<"U+D81B", "U+DE4D">>, <<"U+D81B",
    "U+DE4E">>, <<"U+D81B", "U+DE4F">>, <<"U+D81B", "U+DE50">>, <<"U+D81B",
    "U+DE51">>, <<"U+D81B", "U+DE52">>, <<"U+D81B", "U+DE53">>, <<"U+D81B",
    "U+DE54">>, <<"U+D81B", "U+DE55">>, <<"U+D81B", "U+DE56">>, <<"U+D81B",
    "U+DE57">>, <<"U+D81B", "U+DE58">>, <<"U+D81B", "U+DE59">>, <<"U+D81B",
    "U+DE5A">>, <<"U+D81B", "U+DE5B">>, <<"U+D81B", "U+DE5C">>, <<"U+D81B",
    "U+DE5D">>, <<"U+D81B", "U+DE5E">>, <<"U+D81B", "U+DE5F">>, <<"U+D81B",
    "U+DEA0">>, <<"U+D81B", "U+DEA1">>, <<"U+D81B", "U+DEA2">>, <<"U+D81B",
    "U+DEA3">>, <<"U+D81B", "U+DEA4">>, <<"U+D81B", "U+DEA5">>, <<"U+D81B",
    "U+DEA6">>, <<"U+D81B", "U+DEA7">>, <<"U+D81B", "U+DEA8">>, <<"U+D81B",
    "U+DEA9">>, <<"U+D81B", "U+DEAA">>, <<"U+D81B", "U+DEAB">>, <<"U+D81B",
    "U+DEAC">>, <<"U+D81B", "U+DEAD">>, <<"U+D81B", "U+DEAE">>, <<"U+D81B",
    "U+DEAF">>, <<"U+D81B", "U+DEB0">>, <<"U+D81B", "U+DEB1">>, <<"U+D81B",
    "U+DEB2">>, <<"U+D81B", "U+DEB3">>, <<"U+D81B", "U+DEB4">>, <<"U+D81B",
    "U+DEB5">>, <<"U+D81B", "U+DEB6">>, <<"U+D81B", "U+DEB7">>, <<"U+D81B",
    "U+DEB8">>, <<"U+D83A", "U+DD00">>, <<"U+D83A", "U+DD01">>, <<"U+D83A",
    "U+DD02">>, <<"U+D83A", "U+DD03">>, <<"U+D83A", "U+DD04">>, <<"U+D83A",
    "U+DD05">>, <<"U+D83A", "U+DD06">>, <<"U+D83A", "U+DD07">>, <<"U+D83A",
    "U+DD08">>, <<"U+D83A", "U+DD09">>, <<"U+D83A", "U+DD0A">>, <<"U+D83A",
    "U+DD0B">>, <<"U+D83A", "U+DD0C">>, <<"U+D83A", "U+DD0D">>, <<"U+D83A",
    "U+DD0E">>, <<"U+D83A", "U+DD0F">>, <<"U+D83A", "U+DD10">>, <<"U+D83A",
    "U+DD11">>, <<"U+D83A", "U+DD12">>, <<"U+D83A", "U+DD13">>, <<"U+D83A",
    "U+DD14">>, <<"U+D83A", "U+DD15">>, <<"U+D83A", "U+DD16">>, <<"U+D83A",
    "U+DD17">>, <<"U+D83A", "U+DD18">>, <<"U+D83A", "U+DD19">>, <<"U+D83A",
    "U+DD1A">>, <<"U+D83A", "U+DD1B">>, <<"U+D83A", "U+DD1C">>, <<"U+D83A",
    "U+DD1D">>, <<"U+D83A", "U+DD1E">>, <<"U+D83A", "U+DD1F">>, <<"U+D83A",
    "U+DD20">>, <<"U+D83A", "U+DD21">>>>

CaseKeySet == {CaseKeys[i] : i \in 1..Len(CaseKeys)}

CaseMap ==
  [k \in CaseKeySet |->
     CaseValues[CHOOSE i \in 1..Len(CaseKeys) : CaseKeys[i] = k]]

\* the upper-case mapping of one character, given as its code units
UpperOf(c) == IF c \in CaseKeySet THEN CaseMap[c] ELSE c

RECURSIVE toUpperCase(_)
toUpperCase(str) ==
  IF str = <<>> THEN <<>>
  ELSE IF Len(str) >= 2 /\ SubSeq(str, 1, 2) \in CaseKeySet
       THEN UpperOf(SubSeq(str, 1, 2)) \o toUpperCase(SubSeq(str, 3, Len(str)))
       ELSE UpperOf(<<str[1]>>) \o toUpperCase(Tail(str))

RECURSIVE Flatten(_)
Flatten(seqs) ==
  IF seqs = <<>> THEN <<>> ELSE Head(seqs) \o Flatten(Tail(seqs))

\* mdast-util-to-string: the node's own value, else its alt, else its
\* children's text
RECURSIVE toString(_)
toString(node) ==
  IF node.value # <<>> THEN node.value
  ELSE IF node.alt # <<>> THEN node.alt
  ELSE Flatten([i \in 1..Len(node.children) |-> toString(node.children[i])])

\* a slip: visit(tree, type, visitor, true) walks the children in reverse
RECURSIVE visitReverse(_, _)
visitReverse(node, type) ==
  (IF node.type = type THEN <<node>> ELSE <<>>)
    \o Flatten([i \in 1..Len(node.children) |->
         visitReverse(node.children[Len(node.children) + 1 - i], type)])

\* unist-util-visit: the nodes of a type, depth-first, pre-order
RECURSIVE visit(_, _)
visit(node, type) ==
  (IF node.type = type THEN <<node>> ELSE <<>>)
    \o Flatten([i \in 1..Len(node.children) |-> visit(node.children[i], type)])

\* vfile-location: the offsets just after each line ending (/\r?\n|\r/g),
\* then length + 1
Indices(str) ==
  LET ends == {i \in 1..Len(str) :
                 \/ str[i] = "\n"
                 \/ str[i] = "\r" /\ ~(i < Len(str) /\ str[i + 1] = "\n")}
  IN ends \cup {Len(str) + 1}

toPoint(str, offset) ==
  LET after == {i \in Indices(str) : i > offset}
      before == {i \in Indices(str) : i <= offset}
      lineStart == IF before = {} THEN 0
                   ELSE CHOOSE i \in before : \A j \in before : j <= i
  IN IF offset > -1 /\ after # {}
     THEN Pt(Cardinality(before) + 1, offset - lineStart + 1, offset)
     ELSE NoPoint

\* pluralize(word, count)
plural(word, count) == IF count = 1 THEN word ELSE word \o "s"

\* unist-util-stringify-position of a point
PointIndex(n) == IF n # 0 THEN n ELSE 1
stringifyPosition(point) ==
  ToString(PointIndex(point.line)) \o ":" \o ToString(PointIndex(point.column))

\* vfile: the message file.message(reason, place) appends, by kind of place
MessageAtNode(reason, node) ==
  [reason |-> reason, position |-> node.position, fatal |-> FALSE]
MessageAtPoint(reason, point) ==
  [reason |-> reason, position |-> [start |-> point, end |-> NoPoint],
   fatal |-> FALSE]
MessageAtPosition(reason, position) ==
  [reason |-> reason, position |-> position, fatal |-> FALSE]
\* vfile: file.fail(reason) appends a fatal message and throws
FailMessage(reason) ==
  [reason |-> reason, position |-> NoPosition, fatal |-> TRUE]

--------------------------------------------------------------------------
\* Documents: a document is a sequence of blocks separated by blank lines.
\* A block gives its source text, its number of lines and its node, with the
\* positions the parser gives it when the block starts the document.

Block(text, lines, node) == [text |-> text, lines |-> lines, node |-> node]

ParagraphBlock ==
  Block(<<"P", ".">>, 1,
        Node("paragraph", Pos(1, 1, 0, 1, 3, 2),
             <<Text(<<"P", ".">>, Pos(1, 1, 0, 1, 3, 2))>>))

\* a paragraph a plugin inserted: it has no position
GeneratedParagraph ==
  Node("paragraph", NoPosition, <<Text(<<"g">>, NoPosition)>>)

\* "    a();"
CodeIndentedBlock ==
  Block(<<" ", " ", " ", " ", "a", "(", ")", ";">>, 1,
        Code(<<"a", "(", ")", ";">>, Null, Pos(1, 1, 0, 1, 9, 8)))

\* three grave accents, "a();", three grave accents
CodeFencedBlock ==
  Block(<<Backtick, Backtick, Backtick, "\n", "a", "(", ")", ";", "\n",
          Backtick, Backtick, Backtick>>, 3,
        Code(<<"a", "(", ")", ";">>, Null, Pos(1, 1, 0, 3, 4, 12)))

\* "~~~js", "a", "~~~"
CodeFencedLangBlock ==
  Block(<<"~", "~", "~", "j", "s", "\n", "a", "\n", "~", "~", "~">>, 3,
        Code(<<"a">>, Str("js"), Pos(1, 1, 0, 3, 4, 11)))

\* "    ~~~": an indented code block whose content is a run of tildes
CodeIndentedTildesBlock ==
  Block(<<" ", " ", " ", " ", "~", "~", "~">>, 1,
        Code(<<"~", "~", "~">>, Null, Pos(1, 1, 0, 1, 8, 7)))

CodeGeneratedBlock ==
  Block(<<>>, 0, Code(<<"a">>, Null, NoPosition))

HeadingBlock(a, b, c) ==
  Block(<<"#", " ", a, b, c>>, 1,
        Node("heading", Pos(1, 1, 0, 1, 6, 5),
             <<Text(<<a, b, c>>, Pos(1, 3, 2, 1, 6, 5))>>))

\* "## [Foo](u)"
HeadingLinkBlock ==
  Block(<<"#", "#", " ", "[", "F", "o", "o", "]", "(", "u", ")">>, 1,
        Node("heading", Pos(1, 1, 0, 1, 12, 11),
             <<Node("link", Pos(1, 4, 3, 1, 12, 11),
                    <<Text(<<"F", "o", "o">>, Pos(1, 5, 4, 1, 8, 7))>>)>>))

\* "# ![Foo](u)"
HeadingImageBlock ==
  Block(<<"#", " ", "!", "[", "F", "o", "o", "]", "(", "u", ")">>, 1,
        Node("heading", Pos(1, 1, 0, 1, 12, 11),
             <<Image(<<"F", "o", "o">>, Pos(1, 3, 2, 1, 12, 11))>>))

HeadingGeneratedBlock ==
  Block(<<>>, 0,
        Node("heading", NoPosition, <<Text(<<"F", "o", "o">>, NoPosition)>>))

\* "> a"
Blockquote2Block ==
  Block(<<">", " ", "a">>, 1,
        Node("blockquote", Pos(1, 1, 0, 1, 4, 3),
             <<Node("paragraph", Pos(1, 3, 2, 1, 4, 3),
                    <<Text(<<"a">>, Pos(1, 3, 2, 1, 4, 3))>>)>>))

\* ">  a"
Blockquote3Block ==
  Block(<<">", " ", " ", "a">>, 1,
        Node("blockquote", Pos(1, 1, 0, 1, 5, 4),
             <<Node("paragraph", Pos(1, 4, 3, 1, 5, 4),
                    <<Text(<<"a">>, Pos(1, 4, 3, 1, 5, 4))>>)>>))

\* "> >  a": a block quote whose first child is a block quote
BlockquoteNestedBlock ==
  Block(<<">", " ", ">", " ", " ", "a">>, 1,
        Node("blockquote", Pos(1, 1, 0, 1, 7, 6),
             <<Node("blockquote", Pos(1, 3, 2, 1, 7, 6),
                    <<Node("paragraph", Pos(1, 6, 5, 1, 7, 6),
                           <<Text(<<"a">>, Pos(1, 6, 5, 1, 7, 6))>>)>>)>>))

\* "> a" with a generated paragraph inserted before its content
BlockquoteGeneratedChildBlock ==
  Block(<<">", " ", "a">>, 1,
        Node("blockquote", Pos(1, 1, 0, 1, 4, 3),
             <<GeneratedParagraph,
               Node("paragraph", Pos(1, 3, 2, 1, 4, 3),
                    <<Text(<<"a">>, Pos(1, 3, 2, 1, 4, 3))>>)>>))

BlockquoteGeneratedBlock ==
  Block(<<>>, 0, Node("blockquote", NoPosition, <<GeneratedParagraph>>))

\* "  >" continued by "> a": the content starts in the marker's column
BlockquoteZeroBlock ==
  Block(<<" ", " ", ">", "\n", ">", " ", "a">>, 2,
        Node("blockquote", Pos(1, 3, 2, 2, 4, 7),
             <<Node("paragraph", Pos(2, 3, 6, 2, 4, 7),
                    <<Text(<<"a">>, Pos(2, 3, 6, 2, 4, 7))>>)>>))

\* ">"
BlockquoteEmptyBlock ==
  Block(<<">">>, 1, Node("blockquote", Pos(1, 1, 0, 1, 2, 1), <<>>))

\* "- [ ] a"
CheckboxOkBlock ==
  Block(<<"-", " ", "[", " ", "]", " ", "a">>, 1,
        Node("list", Pos(1, 1, 0, 1, 8, 7),
             <<ListItem(Bool(FALSE), Pos(1, 1, 0, 1, 8, 7),
                        <<Node("paragraph", Pos(1, 7, 6, 1, 8, 7),
                               <<Text(<<"a">>, Pos(1, 7, 6, 1, 8, 7))>>)>>)>>))

\* "+ [x]  a"
CheckboxWideBlock ==
  Block(<<"+", " ", "[", "x", "]", " ", " ", "a">>, 1,
        Node("list", Pos(1, 1, 0, 1, 9, 8),
             <<ListItem(Bool(TRUE), Pos(1, 1, 0, 1, 9, 8),
                        <<Node("paragraph", Pos(1, 7, 6, 1, 9, 8),
                               <<Text(<<" ", "a">>, Pos(1, 7, 6, 1, 9, 8))>>)>>)>>))

\* "- a"
PlainItemBlock ==
  Block(<<"-", " ", "a">>, 1,
        Node("list", Pos(1, 1, 0, 1, 4, 3),
             <<ListItem(Null, Pos(1, 1, 0, 1, 4, 3),
                        <<Node("paragraph", Pos(1, 3, 2, 1, 4, 3),
                               <<Text(<<"a">>, Pos(1, 3, 2, 1, 4, 3))>>)>>)>>))

CheckboxGeneratedBlock ==
  Block(<<>>, 0,
        Node("list", NoPosition,
             <<ListItem(Bool(TRUE), NoPosition, <<GeneratedParagraph>>)>>))

\* "+ [x]  a" with a generated paragraph inserted before its content
CheckboxGeneratedChildBlock ==
  Block(<<"+", " ", "[", "x", "]", " ", " ", "a">>, 1,
        Node("list", Pos(1, 1, 0, 1, 9, 8),
             <<ListItem(Bool(TRUE), Pos(1, 1, 0, 1, 9, 8),
                        <<GeneratedParagraph,
                          Node("paragraph", Pos(1, 7, 6, 1, 9, 8),
                               <<Text(<<" ", "a">>, Pos(1, 7, 6, 1, 9, 8))>>)>>)>>))

\* "- [ ]  a" and, nested in it, "  - [x]   b"
CheckboxNestedBlock ==
  Block(<<"-", " ", "[", " ", "]", " ", " ", "a", "\n",
          " ", " ", "-", " ", "[", "x", "]", " ", " ", " ", "b">>, 2,
        Node("list", Pos(1, 1, 0, 2, 12, 20),
             <<ListItem(Bool(FALSE), Pos(1, 1, 0, 2, 12, 20),
                 <<Node("paragraph", Pos(1, 7, 6, 1, 9, 8),
                        <<Text(<<" ", "a">>, Pos(1, 7, 6, 1, 9, 8))>>),
                   Node("list", Pos(2, 3, 11, 2, 12, 20),
                        <<ListItem(Bool(TRUE), Pos(2, 3, 11, 2, 12, 20),
                            <<Node("paragraph", Pos(2, 9, 17, 2, 12, 20),
                                   <<Text(<<" ", " ", "b">>,
                                          Pos(2, 9, 17, 2, 12, 20))>>)
                            >>)>>)>>)>>))

\* The parser's positions for a block that starts at a later line and offset
ShiftPoint(p, dl, do) ==
  IF p.line = 0 THEN p ELSE Pt(p.line + dl, p.column, p.offset + do)

RECURSIVE Shift(_, _, _)
Shift(node, dl, do) ==
  [node EXCEPT
     !.position = [start |-> ShiftPoint(node.position.start, dl, do),
                   end |-> ShiftPoint(node.position.end, dl, do)],
     !.children = [i \in 1..Len(node.children) |->
                     Shift(node.children[i], dl, do)]]

\* A block that has source text is followed by a blank line
BlockText(b) == IF b.lines = 0 THEN <<>> ELSE b.text \o <<"\n", "\n">>
BlockLines(b) == IF b.lines = 0 THEN 0 ELSE b.lines + 1

SourceOf(blocks) == Flatten([i \in 1..Len(blocks) |-> BlockText(blocks[i])])

RECURSIVE Place(_, _, _, _)
Place(blocks, i, dl, do) ==
  IF i > Len(blocks) THEN <<>>
  ELSE <<Shift(blocks[i].node, dl, do)>>
         \o Place(blocks, i + 1, dl + BlockLines(blocks[i]),
                  do + Len(BlockText(blocks[i])))

RootOf(blocks) ==
  LET src == SourceOf(blocks)
  IN Node("root",
          [start |-> Pt(1, 1, 0), end |-> toPoint(src, Len(src))],
          Place(blocks, 1, 0, 0))

--------------------------------------------------------------------------
\* The rules

Rules ==
  {"code-block-style", "blockquote-indentation", "maximum-heading-length",
   "no-duplicate-headings", "checkbox-content-indent"}

\* the node type each rule passes to visit()
TypeOf(r) ==
  CASE r = "code-block-style" -> "code"
    [] r = "blockquote-indentation" -> "blockquote"
    [] r = "checkbox-content-indent" -> "listItem"
    [] OTHER -> "heading"

BlocksOf(r) ==
  CASE r = "code-block-style" ->
         {CodeIndentedBlock, CodeFencedBlock, CodeFencedLangBlock,
          CodeIndentedTildesBlock, CodeGeneratedBlock, ParagraphBlock}
    [] r = "blockquote-indentation" ->
         {Blockquote2Block, Blockquote3Block, BlockquoteNestedBlock,
          BlockquoteZeroBlock, BlockquoteGeneratedChildBlock,
          BlockquoteGeneratedBlock, BlockquoteEmptyBlock, ParagraphBlock}
    [] r = "checkbox-content-indent" ->
         {CheckboxOkBlock, CheckboxWideBlock, PlainItemBlock,
          CheckboxGeneratedBlock, CheckboxGeneratedChildBlock,
          CheckboxNestedBlock, ParagraphBlock}
    [] OTHER ->
         {HeadingBlock("F", "o", "o"), HeadingBlock("F", "O", "O"),
          HeadingBlock("B", "a", "r"), HeadingLinkBlock, HeadingImageBlock,
          HeadingGeneratedBlock, ParagraphBlock}

OptionsOf(r) ==
  CASE r = "code-block-style" ->
         {Undefined, Str("consistent"), Str("fenced"), Str("indented"),
          Str("null"), Str(PileOfPoo), Str(""), Num(5), Bool(TRUE)}
    [] r = "blockquote-indentation" ->
         {Undefined, Str("consistent"), Num(0), Num(2), Num(3), Num(4),
          Str("foo"), Bool(TRUE)}
    [] r = "maximum-heading-length" ->
         {Undefined, Num(2), Num(3), Str("foo")}
    [] OTHER -> {Undefined, Str("foo")}

DocumentsOf(r) == UNION {[1..n -> BlocksOf(r)] : n \in 0..MaxBlocks}

VARIABLES rule, option, tree, value, pc, nodes, index, preferred, map, messages

vars == <<rule, option, tree, value, pc, nodes, index, preferred, map, messages>>

\* visit(tree, type, visitor): the nodes it calls the visitor with, in order
Matching == visit(tree, TypeOf(rule))

EmptyMap == [k \in {} |-> Null]

Init ==
  /\ rule \in Rules
  /\ option \in OptionsOf(rule)
  /\ \E blocks \in DocumentsOf(rule) :
       /\ tree = RootOf(blocks)
       /\ value = SourceOf(blocks)
  /\ pc = "enter"
  /\ nodes = <<>>
  /\ index = 0
  /\ preferred = Undefined
  /\ map = EmptyMap
  /\ messages = <<>>

\* visit() has called the visitor for every matching node: the rule returns
Return ==
  /\ pc = "visit"
  /\ index = Len(nodes)
  /\ pc' = "done"
  /\ UNCHANGED <<rule, option, tree, value, nodes, index, preferred, map,
                 messages>>

--------------------------------------------------------------------------
\* code-block-style

\* a slip: the table lacks 'indented'
stylesWithoutIndented == {"null", "fenced"}

\* keys of `styles` whose value is true
styles == {"null", "fenced", "indented"}

\* a slip: only 'indented' is taken as an explicit style
codeBlockStylePreferredIndentedOnly(opt) ==
  IF opt.t = "string" /\ opt.s = "indented" THEN opt ELSE Null

codeBlockStylePreferred(opt) ==
  IF opt.t = "string" /\ opt.s # "consistent" THEN opt ELSE Null

\* the characters \s matches; those a TLA+ string cannot hold are written as
\* the token of their code point
Whitespace ==
  {" ", "\t", "\n", "\r", "\f", "U+000B", "U+00A0", "U+1680",
   "U+2000", "U+2001", "U+2002", "U+2003", "U+2004", "U+2005", "U+2006",
   "U+2007", "U+2008", "U+2009", "U+200A", "U+2028", "U+2029", "U+202F",
   "U+205F", "U+3000", "U+FEFF"}

\* /^\s*([~`])\1{2,}/.test(str)
FenceTest(str) ==
  LET rest == {i \in 1..Len(str) : str[i] \notin Whitespace}
      k == IF rest = {} THEN Len(str) + 1
           ELSE CHOOSE i \in rest : \A j \in rest : i <= j
  IN /\ k + 2 <= Len(str)
     /\ str[k] \in {"~", Backtick}
     /\ str[k + 1] = str[k]
     /\ str[k + 2] = str[k]

codeBlockStyleCurrent(node, str) ==
  LET initial == OffsetNumber(pointStart(node).offset)
      final == OffsetNumber(pointEnd(node).offset)
  IN IF Truthy(node.lang) \/ FenceTest(slice(str, initial, final))
     THEN "fenced" ELSE "indented"

\* a slip: the style seen last replaces the preferred one
codeBlockStyleNextPreferredLast(pref, current) == Str(current)

codeBlockStyleNextPreferred(pref, current) ==
  IF Truthy(pref) THEN pref ELSE Str(current)

codeBlockStyleEnter ==
  /\ rule = "code-block-style"
  /\ pc = "enter"
  /\ preferred' = codeBlockStylePreferred(option)
  /\ IF JsString(preferred') \notin styles
     THEN /\ messages' = Append(messages, FailMessage(
               "Incorrect code block style " \o Backtick \o JsString(preferred')
                 \o Backtick \o ": use either " \o Backtick \o "'consistent'"
                 \o Backtick \o ", " \o Backtick \o "'fenced'" \o Backtick
                 \o ", or " \o Backtick \o "'indented'" \o Backtick))
          /\ pc' = "failed"
          /\ UNCHANGED nodes
     ELSE /\ pc' = "visit"
          /\ nodes' = Matching
          /\ UNCHANGED messages
  /\ UNCHANGED <<rule, option, tree, value, index, map>>

codeBlockStyleVisitor ==
  /\ rule = "code-block-style"
  /\ pc = "visit"
  /\ index < Len(nodes)
  /\ LET node == nodes[index + 1]
     IN IF generated(node)
        THEN UNCHANGED <<preferred, messages>>
        ELSE LET current == codeBlockStyleCurrent(node, value)
             IN /\ preferred' = codeBlockStyleNextPreferred(preferred, current)
                /\ IF Truthy(preferred) /\ preferred.s # current
                   THEN messages' = Append(messages, MessageAtNode(
                          "Code blocks should be " \o preferred.s, node))
                   ELSE UNCHANGED messages
  /\ index' = index + 1
  /\ UNCHANGED <<rule, option, tree, value, pc, nodes, map>>

--------------------------------------------------------------------------
\* blockquote-indentation

check(node) ==
  pointStart(node.children[1]).column - pointStart(node).column

blockquoteIndentationPreferred(opt) ==
  IF opt.t = "number" THEN opt ELSE Null

blockquoteIndentationNextPreferred(pref, node) ==
  IF Truthy(pref) THEN pref ELSE Num(check(node))

blockquoteIndentationEnter ==
  /\ rule = "blockquote-indentation"
  /\ pc = "enter"
  /\ preferred' = blockquoteIndentationPreferred(option)
  /\ pc' = "visit"
  /\ nodes' = Matching
  /\ UNCHANGED <<rule, option, tree, value, index, map, messages>>

blockquoteIndentationVisitor ==
  /\ rule = "blockquote-indentation"
  /\ pc = "visit"
  /\ index < Len(nodes)
  /\ LET node == nodes[index + 1]
     IN IF generated(node) \/ Len(node.children) = 0
        THEN UNCHANGED <<preferred, messages>>
        ELSE /\ preferred' = blockquoteIndentationNextPreferred(preferred, node)
             /\ IF Truthy(preferred) /\ preferred.n - check(node) # 0
                THEN LET diff == preferred.n - check(node)
                         abs == Abs(diff)
                     IN messages' = Append(messages, MessageAtPoint(
                          (IF diff > 0 THEN "Add" ELSE "Remove") \o " "
                            \o ToString(abs) \o " " \o plural("space", abs)
                            \o " between block quote and content",
                          pointStart(node.children[1])))
                ELSE UNCHANGED messages
  /\ index' = index + 1
  /\ UNCHANGED <<rule, option, tree, value, pc, nodes, map>>

--------------------------------------------------------------------------
\* maximum-heading-length

maximumHeadingLengthPreferred(opt) ==
  IF opt.t = "number" THEN opt ELSE Num(60)

maximumHeadingLengthEnter ==
  /\ rule = "maximum-heading-length"
  /\ pc = "enter"
  /\ preferred' = maximumHeadingLengthPreferred(option)
  /\ pc' = "visit"
  /\ nodes' = Matching
  /\ UNCHANGED <<rule, option, tree, value, index, map, messages>>

maximumHeadingLengthVisitor ==
  /\ rule = "maximum-heading-length"
  /\ pc = "visit"
  /\ index < Len(nodes)
  /\ LET node == nodes[index + 1]
     IN IF ~generated(node) /\ Len(toString(node)) > preferred.n
        THEN messages' = Append(messages, MessageAtNode(
               "Use headings shorter than " \o Backtick \o JsString(preferred)
                 \o Backtick, node))
        ELSE UNCHANGED messages
  /\ index' = index + 1
  /\ UNCHANGED <<rule, option, tree, value, pc, nodes, preferred, map>>

--------------------------------------------------------------------------
\* no-duplicate-headings

\* a slip: a key, once set, keeps its first node
MapSetKeepFirst(m, key, node) ==
  [k \in DOMAIN m \cup {key} |-> IF k \in DOMAIN m THEN m[k] ELSE node]

\* map[key] = node
MapSet(m, key, node) ==
  [k \in DOMAIN m \cup {key} |-> IF k = key THEN node ELSE m[k]]

noDuplicateHeadingsEnter ==
  /\ rule = "no-duplicate-headings"
  /\ pc = "enter"
  /\ map' = EmptyMap
  /\ pc' = "visit"
  /\ nodes' = Matching
  /\ UNCHANGED <<rule, option, tree, value, index, preferred, messages>>

noDuplicateHeadingsVisitor ==
  /\ rule = "no-duplicate-headings"
  /\ pc = "visit"
  /\ index < Len(nodes)
  /\ LET node == nodes[index + 1]
     IN IF ~generated(node)
        THEN LET key == toUpperCase(toString(node))
             IN /\ IF key \in DOMAIN map
                   THEN messages' = Append(messages, MessageAtNode(
                          "Do not use headings with similar content ("
                            \o stringifyPosition(pointStart(map[key])) \o ")",
                          node))
                   ELSE UNCHANGED messages
                /\ map' = MapSet(map, key, node)
        ELSE UNCHANGED <<map, messages>>
  /\ index' = index + 1
  /\ UNCHANGED <<rule, option, tree, value, pc, nodes, preferred>>

--------------------------------------------------------------------------
\* checkbox-content-indent

\* /\[([\t xX])]/.exec(str) finds a match
CheckboxTest(str) ==
  \E i \in 1..Len(str) :
    /\ i + 2 <= Len(str)
    /\ str[i] = "["
    /\ str[i + 1] \in {"\t", " ", "x", "X"}
    /\ str[i + 2] = "]"

\* while (/[\t ]/.test(value.charAt(final))) final++
RECURSIVE SkipBlank(_, _)
SkipBlank(str, final) ==
  IF charAt(str, final) \in {"\t", " "} THEN SkipBlank(str, final + 1)
  ELSE final

checkboxContentIndentPoint(node) ==
  IF Len(node.children) = 0 THEN pointEnd(node)
  ELSE pointStart(node.children[1])

checkboxContentIndentEnter ==
  /\ rule = "checkbox-content-indent"
  /\ pc = "enter"
  /\ pc' = "visit"
  /\ nodes' = Matching
  /\ UNCHANGED <<rule, option, tree, value, index, preferred, map, messages>>

checkboxContentIndentVisitor ==
  /\ rule = "checkbox-content-indent"
  /\ pc = "visit"
  /\ index < Len(nodes)
  /\ LET node == nodes[index + 1]
         point == checkboxContentIndentPoint(node)
         initial == OffsetNumber(point.offset)
         final == SkipBlank(value, initial)
     IN IF \/ node.checked.t # "boolean"
           \/ generated(node)
           \/ ~CheckboxTest(slice(value, initial - 4, initial + 1))
           \/ ~(final - initial > 0)
        THEN UNCHANGED messages
        ELSE messages' = Append(messages, MessageAtPosition(
               "Checkboxes should be followed by a single character",
               [start |-> toPoint(value, initial),
                end |-> toPoint(value, final)]))
  /\ index' = index + 1
  /\ UNCHANGED <<rule, option, tree, value, pc, nodes, preferred, map>>

--------------------------------------------------------------------------

Next ==
  \/ codeBlockStyleEnter
  \/ codeBlockStyleVisitor
  \/ blockquoteIndentationEnter
  \/ blockquoteIndentationVisitor
  \/ maximumHeadingLengthEnter
  \/ maximumHeadingLengthVisitor
  \/ noDuplicateHeadingsEnter
  \/ noDuplicateHeadingsVisitor
  \/ checkboxContentIndentEnter
  \/ checkboxContentIndentVisitor
  \/ Return

Spec == Init /\ [][Next]_vars

--------------------------------------------------------------------------
\* Properties

\* the nodes the visitor has been called with so far
Visited == SubSeq(nodes, 1, index)

NotGenerated(node) == ~generated(node)
Located(node) == ~generated(node) /\ Len(node.children) > 0

\* the visitor is running or has run: the rule function got past its entry
Entered == pc \in {"visit", "done"}

ConsistentOption == option \in {Undefined, Str("consistent")}

StartOffsets == [i \in 1..Len(messages) |-> messages[i].position.start.offset]

\* C1: code-block-style, option absent or 'consistent': of the non-generated
\* code nodes visited so far, the first has no message, and the messages are
\* exactly, in order, those for the later nodes whose style differs from the
\* first one's; a generated code node neither sets the style nor is reported.
C1_ConsistentCodeBlocks ==
  (rule = "code-block-style" /\ ConsistentOption /\ Entered) =>
    LET real == SelectSeq(Visited, NotGenerated)
        first == codeBlockStyleCurrent(real[1], value)
        Differs(node) == codeBlockStyleCurrent(node, value) # first
        flagged == IF real = <<>> THEN <<>> ELSE SelectSeq(Tail(real), Differs)
    IN /\ messages = [i \in 1..Len(flagged) |->
                        MessageAtNode("Code blocks should be " \o first,
                                      flagged[i])]
       /\ preferred = IF real = <<>> THEN Null ELSE Str(first)

\* a generated code node came first, then two nodes of different styles
C1_Witness ==
  /\ rule = "code-block-style" /\ ConsistentOption /\ pc = "done"
  /\ Len(nodes) = 3
  /\ generated(nodes[1])
  /\ Len(messages) = 1
  /\ messages[1].position = nodes[3].position

\* C2: code-block-style, option 'fenced' or 'indented': the messages are
\* exactly, in order, 'Code blocks should be ' + option at every non-generated
\* code node whose style is not the option, the first included, and preferred
\* stays the option.
C2_FixedCodeBlocks ==
  (rule = "code-block-style" /\ option \in {Str("fenced"), Str("indented")}
     /\ pc # "enter") =>
    LET Differs(node) ==
          ~generated(node) /\ codeBlockStyleCurrent(node, value) # option.s
        flagged == SelectSeq(Visited, Differs)
    IN /\ messages = [i \in 1..Len(flagged) |->
                        MessageAtNode("Code blocks should be " \o option.s,
                                      flagged[i])]
       /\ preferred = option
       /\ pc # "failed"

\* option 'fenced', an indented block first and a fenced one after it
C2_Witness ==
  /\ rule = "code-block-style" /\ option = Str("fenced") /\ pc = "done"
  /\ Len(nodes) = 2
  /\ ~generated(nodes[1]) /\ ~generated(nodes[2])
  /\ messages = <<MessageAtNode("Code blocks should be fenced", nodes[1])>>

\* C3: code-block-style given a string other than 'consistent', 'fenced',
\* 'indented': fail is called before any node is visited and its message is
\* the only one.
C3_InvalidStringFails ==
  (rule = "code-block-style" /\ option.t = "string"
     /\ option.s \notin {"consistent", "fenced", "indented"} /\ pc # "enter") =>
    /\ pc = "failed"
    /\ index = 0
    /\ Len(messages) = 1
    /\ messages[1].fatal

\* the option values each rule documents
LegalOption(r, opt) ==
  CASE r = "code-block-style" ->
         opt \in {Undefined, Str("consistent"), Str("fenced"), Str("indented")}
    [] r = "blockquote-indentation" ->
         opt \in {Undefined, Str("consistent")} \/ opt.t = "number"
    [] r = "maximum-heading-length" ->
         opt = Undefined \/ opt.t = "number"
    [] OTHER -> TRUE

\* C4: a rule given an option outside its legal set takes the fail path
\* before it visits a node.
C4_IllegalOptionFails ==
  (pc # "enter" /\ ~LegalOption(rule, option)) =>
    /\ pc = "failed"
    /\ index = 0
    /\ Len(messages) = 1
    /\ messages[1].fatal

\* C5 as stated: a document without a node of the visited type gets no
\* message, whatever the option.
C5_NoMatchNoMessage == messages = <<>> \/ Len(Matching) > 0

\* C5 amended: such a document gets no message, except that code-block-style
\* on the fail path has appended its one fatal message.
C5_NoMatchOnlyFail ==
  IF /\ rule = "code-block-style" /\ pc # "enter" /\ option.t = "string"
     /\ option.s \notin {"consistent", "fenced", "indented", "null"}
  THEN \/ pc = "failed" /\ Len(messages) = 1 /\ messages[1].fatal
       \/ Len(Matching) > 0
  ELSE \/ pc # "failed" /\ messages = <<>>
       \/ Len(Matching) > 0

\* a document of paragraphs only, walked to the end
C5_Witness ==
  /\ pc = "done"
  /\ Len(tree.children) = MaxBlocks
  /\ messages = <<>>
  /\ Len(Matching) = 0

\* C6: no message is located at, or quotes, a node without a position.
C6_NoGeneratedSubject ==
  /\ \A i \in 1..Len(messages) :
       ~messages[i].fatal =>
         /\ messages[i].position.start.line > 0
         /\ messages[i].position.start.column > 0
  /\ \A key \in DOMAIN map : ~generated(map[key])

\* C7: the messages of an invocation that have a start offset are in
\* non-decreasing order of it.
C7_AscendingOffsets ==
  \A i, j \in 1..Len(messages) :
    (i < j /\ StartOffsets[i] # NoOffset /\ StartOffsets[j] # NoOffset) =>
      StartOffsets[i] <= StartOffsets[j]

\* a block quote nested as first child of another, both reported
C7_Witness ==
  /\ rule = "blockquote-indentation" /\ pc = "done"
  /\ Len(nodes) >= 3
  /\ Len(nodes[1].children) > 0
  /\ nodes[2] = nodes[1].children[1]
  /\ Len(messages) = 3
  /\ StartOffsets[1] < StartOffsets[2]
  /\ StartOffsets[2] < StartOffsets[3]


UpperText(node) == toUpperCase(toString(node))

\* C8: no-duplicate-headings: the messages are exactly, in order, one at every
\* non-generated heading that has an earlier non-generated heading with the
\* same upper-cased text, quoting the start of the latest such heading; so
\* there are as many messages as headings minus distinct texts.
C8_DuplicateHeadings ==
  (rule = "no-duplicate-headings" /\ Entered) =>
    LET real == SelectSeq(Visited, NotGenerated)
        Earlier(i) == {j \in 1..(i - 1) : UpperText(real[j]) = UpperText(real[i])}
        Latest(i) == CHOOSE j \in Earlier(i) : \A k \in Earlier(i) : k <= j
        IsDuplicate(i) == Earlier(i) # {}
        duplicates == SelectSeq([i \in 1..Len(real) |-> i], IsDuplicate)
    IN /\ messages = [k \in 1..Len(duplicates) |->
            MessageAtNode(
              "Do not use headings with similar content ("
                \o ToString(real[Latest(duplicates[k])].position.start.line)
                \o ":"
                \o ToString(real[Latest(duplicates[k])].position.start.column)
                \o ")",
              real[duplicates[k]])]
       /\ Len(messages) =
            Len(real) - Cardinality({UpperText(real[i]) : i \in 1..Len(real)})

\* three headings with one text: the third quotes the second
C8_Witness ==
  /\ rule = "no-duplicate-headings" /\ pc = "done"
  /\ Len(nodes) = 3
  /\ Len(messages) = 2
  /\ messages[2].reason = "Do not use headings with similar content (3:1)"
  /\ UpperText(nodes[1]) = UpperText(nodes[3])
  /\ toString(nodes[1]) # toString(nodes[2])

IndentationReason(diff) ==
  (IF diff > 0 THEN "Add " ELSE "Remove ") \o ToString(Abs(diff))
    \o (IF Abs(diff) = 1 THEN " space" ELSE " spaces")
    \o " between block quote and content"

\* C9: blockquote-indentation given a number n: preferred stays n, and the
\* messages are exactly, in order, one for every non-generated block quote
\* with a child whose indentation is not n, at the first child's start.
C9_NumericIndentation ==
  (rule = "blockquote-indentation" /\ option.t = "number" /\ Entered) =>
    LET Differs(node) == Located(node) /\ check(node) # option.n
        flagged == SelectSeq(Visited, Differs)
    IN /\ preferred = option
       /\ messages = [i \in 1..Len(flagged) |->
            MessageAtPoint(IndentationReason(option.n - check(flagged[i])),
                           pointStart(flagged[i].children[1]))]

\* C10: blockquote-indentation, option absent or 'consistent': preferred is
\* unset until the first non-generated block quote with a child is visited,
\* is from then on that block quote's indentation; that block quote has no
\* message and the messages are exactly, in order, those of the later ones
\* whose indentation differs from it.
C10_InferredOnce ==
  (rule = "blockquote-indentation" /\ ConsistentOption /\ Entered) =>
    LET real == SelectSeq(Visited, Located)
        first == check(real[1])
        Differs(node) == check(node) # first
        flagged == IF real = <<>> THEN <<>> ELSE SelectSeq(Tail(real), Differs)
    IN /\ preferred = IF real = <<>> THEN Null ELSE Num(first)
       /\ messages = [i \in 1..Len(flagged) |->
            MessageAtPoint(IndentationReason(first - check(flagged[i])),
                           pointStart(flagged[i].children[1]))]

====
